---------------------------- MODULE Spec2Model ----------------------------
(***************************************************************************)
(* Model of five components of the CODEUI editor:                          *)
(*   - the style history hook (src/hooks/use-style-history.ts),            *)
(*   - the AI chat hook and its generation sessions                        *)
(*     (src/lib/prompts/frontend-design.ts, useAIChat),                    *)
(*   - the SEARCH/REPLACE patch engine                                     *)
(*     (src/lib/prompts/frontend-design.ts, applySearchReplace),           *)
(*   - the stream decoders of the route and of the hook                    *)
(*     (src/app/api/ai/route.ts, src/lib/prompts/frontend-design.ts),      *)
(*   - the editor component, which owns the document and hands its         *)
(*     callbacks to the hook (src/unnamed/part_003, EditorLayoutNew).      *)
(* Each component has its own specification (SpecHistory, SpecChat,        *)
(* SpecPatch, SpecStream, SpecEditor); the variables of the components a   *)
(* specification does not move keep their initial value.                   *)
(***************************************************************************)
EXTENDS Integers, Sequences, FiniteSets, TLC

VARIABLES
    \* ---- style history (useStyleHistory) ----
    state,            \* the useState value {past, present, future}
    pendingChangesRef,\* pendingChangesRef.current
    batchTimerRef,    \* batchTimerRef.current: "null", "live" (a timeout
                      \* that has not fired), "dead" (a fired or cleared id)
    timers,           \* number of setTimeout(flushBatch) callbacks still due
    fiberLanes,       \* TRUE when React has an update queued for the
                      \* component and has not rendered it yet
    clock,            \* number of pushChange calls so far (id and timestamp
                      \* of the next change)
    lastCall,         \* the last history operation and what it returned
    run               \* the latest row of consecutive pushChange calls for
                      \* one (selector, property): its first and last call,
                      \* and the number of rows since the pending list was
                      \* last emptied

VARIABLES
    \* ---- patch engine (applySearchReplace) ----
    originalHtml,     \* the document handed to applySearchReplace
    aiResponse,       \* the raw AI output handed to applySearchReplace
    patchResult,      \* what the call returned (Null before the call)
    reapplied,        \* what a second call, on the document the first call
                      \* returned and with the same AI output, returned
    extracted         \* what extractHtml(aiResponse) returned (Null before
                      \* the call)

VARIABLES
    \* ---- generation sessions (useAIChat) ----
    abortControllerRef, \* abortControllerRef.current: 0 for null, else the
                        \* session whose AbortController it holds
    pc,               \* per sendMessage call: where its async body stands
    aborted,          \* per call: signal.aborted of its AbortController
    fullContent,      \* per call: the local fullContent
    fullThinking,     \* per call: the local fullThinking
    reads,            \* per call: chunks read so far
    outcome,          \* per call: how the promise settled
    isGenerating,     \* useState isGenerating
    content,          \* useState content
    thinking,         \* useState thinking
    error,            \* useState error: TRUE when an Error is stored
    calls,            \* per call: the callbacks invoked for it
    cancelAsked       \* per call: the caller asked to cancel it (cancel(),
                      \* reset() or a newer sendMessage) while in flight

VARIABLES
    \* ---- stream decoders (route.ts POST, and the read loop of useAIChat) ----
    upLines,          \* the lines the provider will send, in order
    upPos,            \* how much of the provider's bytes the route has read
    srvBuffer,        \* route.ts: buffer
    enqueued,         \* the lines of the response body so far, in order:
                      \* the events route.ts has enqueued
    srvState,         \* the route's output stream: "idle" (not started),
                      \* "readable", "closed", "errored"
    readFailed,       \* a read of the provider's stream has rejected
    cliPos,           \* how much of the route's output the client has read
    cliBuffer,        \* sendMessage: buffer
    cliEvents,        \* the onContentUpdate / onThinkingUpdate calls, in order
    cliFull,          \* sendMessage: fullContent and fullThinking
    cliState          \* the client's read loop: "idle", "reading", "done",
                      \* "failed"

VARIABLES
    \* ---- the editor (EditorLayoutNew) ----
    htmlContent,      \* useState htmlContent: the document
    hasGeneratedOnce, \* useState hasGeneratedOnce
    messages,         \* useState messages: the chat, oldest first
    draftAiOutput,    \* useState draftAiOutput
    viewMode,         \* useState viewMode
    selectedElement,  \* useState selectedElement: TRUE when not null
    templateFetch,    \* the effect that loads the template: "loading" until
                      \* the template has arrived, then "loaded"
    closure,          \* per sendMessage call: hasGeneratedOnce and
                      \* htmlContent of the render whose callbacks it holds
    request           \* per sendMessage call: isFollowUp and currentHtml of
                      \* the request body

VARIABLES
    \* ---- style persistence (useStylePersistence) ----
    enabled,          \* option enabled
    persistedStyles,  \* useState persistedStyles
    saveTimerRef,     \* useRef saveTimerRef: the id of the last timer
                      \* armed, 0 for null
    saveTimers,       \* every timer armed by saveStyles, by id: the styles
                      \* its callback holds and "armed", "cleared" or "fired"
    localStorage,     \* the item stored under storageKey, null when absent
    setItemCalls,     \* the calls of localStorage.setItem, in order
    hookState,        \* "created" (the load effect has not run yet),
                      \* "mounted", "unmounted"
    escaped,          \* an exception has left one of the hook's operations
    lastOperation     \* the last operation of the hook and whether a call
                      \* of localStorage or JSON.parse threw in it

VARIABLES
    \* ---- style validators ----
    validatorInput,   \* the arguments of the validator under test
    validatorResult   \* what the call returned, or that it threw

histVars == <<state, pendingChangesRef, batchTimerRef, timers, fiberLanes,
              clock, lastCall, run>>

patchVars == <<originalHtml, aiResponse, patchResult, reapplied, extracted>>

chatVars == <<abortControllerRef, pc, aborted, fullContent, fullThinking, reads,
              outcome, isGenerating, content, thinking, error, calls,
              cancelAsked>>

streamVars == <<upLines, upPos, srvBuffer, enqueued, srvState, readFailed,
                cliPos, cliBuffer, cliEvents, cliFull, cliState>>

editorVars == <<htmlContent, hasGeneratedOnce, messages, draftAiOutput, viewMode,
                selectedElement, templateFetch, closure, request>>

persistVars == <<enabled, persistedStyles, saveTimerRef, saveTimers, localStorage,
                 setItemCalls, hookState, escaped, lastOperation>>

validVars == <<validatorInput, validatorResult>>

vars == <<histVars, patchVars, chatVars, streamVars, editorVars, persistVars,
          validVars>>

-----------------------------------------------------------------------------
(* Bounds *)

\* maxSize argument of useStyleHistory (default MAX_HISTORY_SIZE)
maxSize == 2
\* total number of pushChange calls explored
MaxPushes == 3
\* longest pending list explored
MaxPending == 3
\* number of sendMessage calls explored
MaxSessions == 3
\* number of chunks one session reads
MaxReads == 1
\* the number of lines of a provider body
MaxLines == 3
\* number of handleSend calls explored
MaxGenerations == 2
\* number of timers saveStyles arms
MaxSaves == 3

-----------------------------------------------------------------------------
(* Generic sequence helpers *)

\* mutant of SliceLast: the list is never truncated
SliceLast_untruncated(arr, n) == arr

\* mutant of SliceLast: the newest elements are dropped, not the oldest
SliceLast_dropsNewest(arr, n) ==
    IF Len(arr) <= n THEN arr ELSE SubSeq(arr, 1, n)

\* arr.slice(-n) for n > 0
SliceLast(arr, n) ==
    IF Len(arr) <= n THEN arr ELSE SubSeq(arr, Len(arr) - n + 1, Len(arr))

\* mutant of SliceFirst: one element fewer is kept
SliceFirst_oneShort(arr, n) ==
    IF Len(arr) < n THEN arr ELSE SubSeq(arr, 1, n - 1)

\* arr.slice(0, n)
SliceFirst(arr, n) ==
    IF Len(arr) <= n THEN arr ELSE SubSeq(arr, 1, n)

\* arr.slice(0, -1)
DropLast(arr) == IF Len(arr) = 0 THEN arr ELSE SubSeq(arr, 1, Len(arr) - 1)

\* a nullable value is a sequence of length 0 (null) or 1 (the value)
Null == <<>>
Some(v) == <<v>>
IsNull(o) == o = <<>>
Get(o) == o[1]


-----------------------------------------------------------------------------
(* Text: src/lib/prompts/frontend-design.ts, extractHtml and                *)
(* applySearchReplace.  A text is a sequence of atoms: single characters,  *)
(* and the literals the code looks for, each taken as one atom.            *)

SEARCH_MARK  == "<<<<<<< SEARCH"
SEPARATOR    == "======="
REPLACE_MARK == ">>>>>>> REPLACE"
DOCTYPE      == "<!DOCTYPE"
doctype      == "<!doctype"
HTML_OPEN    == "<html"
HTML_CLOSE   == "</html>"
\* three backquotes, and one backquote
FENCE        == "<fence>"
BACKQUOTE    == "<backquote>"
QUOTE        == "'"
NL           == "\n"
SP           == " "

\* the characters matched by \s
IsSpace(ch) == ch \in {NL, SP}

\* the smallest element of a non-empty set of numbers
Min(S) == CHOOSE x \in S : \A y \in S : x <= y

\* String.prototype.trim
trim(str) ==
    LET keep == { i \in 1..Len(str) : ~IsSpace(str[i]) }
    IN IF keep = {} THEN <<>>
       ELSE SubSeq(str, Min(keep), CHOOSE x \in keep : \A y \in keep : y <= x)

\* String.prototype.startsWith, for a literal that is one atom
startsWith(str, literal) == Len(str) > 0 /\ str[1] = literal

\* the positions at which sub occurs in str
Occurrences(str, sub) ==
    { i \in 1..(Len(str) - Len(sub) + 1) : SubSeq(str, i, i + Len(sub) - 1) = sub }

\* String.prototype.includes
includes(str, sub) == Occurrences(str, sub) # {}

\* GetSubstitution of String.prototype.replace for a string pattern (no
\* capture groups): $$ gives $, $& the matched text, $ with a backquote the
\* text before the match, $ with a quote the text after it; any other $
\* stands for itself.
RECURSIVE GetSubstitution(_, _, _, _, _)
GetSubstitution(template, i, matched, before, after) ==
    IF i > Len(template) THEN <<>>
    ELSE IF template[i] = "$" /\ i < Len(template)
              /\ template[i + 1] \in {"$", "&", BACKQUOTE, QUOTE}
         THEN (CASE template[i + 1] = "$" -> <<"$">>
                 [] template[i + 1] = "&" -> matched
                 [] template[i + 1] = BACKQUOTE -> before
                 [] template[i + 1] = QUOTE -> after)
              \o GetSubstitution(template, i + 2, matched, before, after)
         ELSE <<template[i]>>
              \o GetSubstitution(template, i + 1, matched, before, after)

\* String.prototype.replace(searchValue, replaceValue) with two strings
replace(str, searchValue, replaceValue) ==
    IF ~includes(str, searchValue) THEN str
    ELSE LET pos    == Min(Occurrences(str, searchValue))
             before == SubSeq(str, 1, pos - 1)
             after  == SubSeq(str, pos + Len(searchValue), Len(str))
         IN before
            \o GetSubstitution(replaceValue, 1, searchValue, before, after)
            \o after

\* patchRegex.exec(aiResponse) from lastIndex (a position, from 1):
\*   /<<<<<<< SEARCH\n([\s\S]*?)\n=======\n([\s\S]*?)\n>>>>>>> REPLACE/g
\* The match starts at the leftmost SEARCH line that has a separator line
\* and, after it, a REPLACE line; both groups are the shortest possible.
PatchStarts(str, lastIndex) ==
    { i \in lastIndex..Len(str) :
        /\ i + 1 <= Len(str)
        /\ str[i] = SEARCH_MARK /\ str[i + 1] = NL
        /\ \E j \in (i + 2)..Len(str), k \in (i + 5)..Len(str) :
             /\ j + 2 <= Len(str) /\ k + 1 <= Len(str) /\ k >= j + 3
             /\ str[j] = NL /\ str[j + 1] = SEPARATOR /\ str[j + 2] = NL
             /\ str[k] = NL /\ str[k + 1] = REPLACE_MARK }

patchRegexExec(str, lastIndex) ==
    IF PatchStarts(str, lastIndex) = {} THEN [found |-> FALSE]
    ELSE LET i == Min(PatchStarts(str, lastIndex))
             j == Min({ x \in (i + 2)..(Len(str) - 2) :
                          /\ str[x] = NL /\ str[x + 1] = SEPARATOR
                          /\ str[x + 2] = NL })
             k == Min({ x \in (j + 3)..(Len(str) - 1) :
                          str[x] = NL /\ str[x + 1] = REPLACE_MARK })
         IN [found        |-> TRUE,
             searchBlock  |-> SubSeq(str, i + 2, j - 1),
             replaceBlock |-> SubSeq(str, j + 3, k - 1),
             lastIndex    |-> k + 2]

\* htmlBlockRegex (three backquotes, html?, \s*, ([\s\S]*?), three
\* backquotes; flags gi): a fence, the label, blanks,
\* then the shortest text up to the next fence
IsHtmlLabel(ch) == ch \in {"html", "htm", "HTML"}

FenceStarts(str, lastIndex) ==
    { i \in lastIndex..Len(str) :
        /\ i + 1 <= Len(str)
        /\ str[i] = FENCE /\ IsHtmlLabel(str[i + 1])
        /\ \E k \in (i + 2)..Len(str) : str[k] = FENCE }

RECURSIVE htmlBlocks(_, _)
htmlBlocks(str, lastIndex) ==
    IF FenceStarts(str, lastIndex) = {} THEN <<>>
    ELSE LET i == Min(FenceStarts(str, lastIndex))
             k == Min({ x \in (i + 2)..Len(str) : str[x] = FENCE })
             g == Min({ x \in (i + 2)..k : ~IsSpace(str[x]) })
         IN <<SubSeq(str, g, k - 1)>> \o htmlBlocks(str, k + 1)

\* matches.map(m => m[1]).join("\n")
RECURSIVE joinLines(_)
joinLines(parts) ==
    IF Len(parts) = 0 THEN <<>>
    ELSE IF Len(parts) = 1 THEN parts[1]
    ELSE parts[1] \o <<NL>> \o joinLines(Tail(parts))

\* content.match(/<open>[\s\S]*?<\/html>/i) for the opening literals given:
\* the text from the first opening literal to the first </html> after it
documentMatch(str, openings) ==
    LET starts == { i \in 1..Len(str) :
                      /\ str[i] \in openings
                      /\ \E k \in (i + 1)..Len(str) : str[k] = HTML_CLOSE }
    IN IF starts = {} THEN Null
       ELSE LET i == Min(starts)
                k == Min({ x \in (i + 1)..Len(str) : str[x] = HTML_CLOSE })
            IN Some(SubSeq(str, i, k))

\* extractHtml(content)
extractHtml(text) ==
    IF startsWith(trim(text), DOCTYPE) \/ startsWith(trim(text), HTML_OPEN)
    THEN trim(text)
    ELSE IF Len(htmlBlocks(text, 1)) > 0
    THEN trim(joinLines(htmlBlocks(text, 1)))
    ELSE IF ~IsNull(documentMatch(text, {DOCTYPE, doctype}))
    THEN trim(Get(documentMatch(text, {DOCTYPE, doctype})))
    ELSE IF ~IsNull(documentMatch(text, {HTML_OPEN}))
    THEN trim(Get(documentMatch(text, {HTML_OPEN})))
    ELSE trim(text)

\* mutant of applyPatches: the loop ends after the first block
applyPatches_firstBlockOnly(result, response, lastIndex) ==
    LET match == patchRegexExec(response, lastIndex)
    IN IF ~match.found THEN result
       ELSE IF includes(result, trim(match.searchBlock))
       THEN replace(result, trim(match.searchBlock), trim(match.replaceBlock))
       ELSE result

\* the while loop of applySearchReplace, from lastIndex on
RECURSIVE applyPatches(_, _, _)
applyPatches(result, response, lastIndex) ==
    LET match == patchRegexExec(response, lastIndex)
    IN IF ~match.found THEN result
       ELSE LET searchContent  == trim(match.searchBlock)
                replaceContent == trim(match.replaceBlock)
            IN applyPatches(
                 IF includes(result, searchContent)
                 THEN replace(result, searchContent, replaceContent)
                 ELSE result,
                 response, match.lastIndex)

\* applySearchReplace(originalHtml, aiResponse)
applySearchReplace(original, response) ==
    LET result == applyPatches(original, response, 1)
    IN IF result = original
          /\ (startsWith(extractHtml(response), DOCTYPE)
                \/ startsWith(extractHtml(response), HTML_OPEN))
       THEN extractHtml(response)
       ELSE result

-----------------------------------------------------------------------------
(* Style history: src/hooks/use-style-history.ts, useStyleHistory *)

\* the (selector, property) pairs drawn for a StyleChange
Targets == { <<".x", "color">>, <<".x", "width">> }
\* the caller changes a value from v0 to v1 or back
ValueChanges == { <<"v0", "v1">>, <<"v1", "v0">> }

\* a StyleChange as built by the caller of pushChange at time t
StyleChange(t, sel, prop, old, new) ==
    [id |-> t, selector |-> sel, property |-> prop,
     oldValue |-> old, newValue |-> new, timestamp |-> t]

\* the list a caller hands to batchChanges: the caller builds it, and nothing
\* keeps it from naming one (selector, property) twice
BatchInputs ==
    { << StyleChange(0, ".y", "color", "v0", "v1"),
         StyleChange(0, ".y", "color", "v1", "v0") >> }

InitialState == [past |-> <<>>, present |-> Null, future |-> <<>>]

\* the condition of pushChange: the last pending change has the same
\* selector and the same property as the new one
SameTarget(lastPending, change) ==
    /\ lastPending.selector = change.selector
    /\ lastPending.property = change.property

\* mutant of PushPending: every change is appended, none is coalesced
PushPending_appendsAlways(pending, change) == Append(pending, change)

\* mutant of PushPending: a coalesced entry also takes the new oldValue
PushPending_overwritesOld(pending, change) ==
    IF Len(pending) > 0 /\ SameTarget(pending[Len(pending)], change)
    THEN [pending EXCEPT ![Len(pending)] =
             [@ EXCEPT !.oldValue = change.oldValue,
                       !.newValue = change.newValue,
                       !.timestamp = change.timestamp]]
    ELSE Append(pending, change)

\* pushChange: the pending list after the call
PushPending(pending, change) ==
    IF Len(pending) > 0 /\ SameTarget(pending[Len(pending)], change)
    THEN [pending EXCEPT ![Len(pending)] =
             [@ EXCEPT !.newValue = change.newValue,
                       !.timestamp = change.timestamp]]
    ELSE Append(pending, change)

\* mutant of flushBatchUpdater: the redo stack is kept
flushBatchUpdater_keepsFuture(prev, batch) ==
    [past    |-> IF ~IsNull(prev.present)
                 THEN SliceLast(Append(prev.past, Get(prev.present)), maxSize)
                 ELSE prev.past,
     present |-> Some(batch),
     future  |-> prev.future]

\* the state updater of flushBatch
flushBatchUpdater(prev, batch) ==
    [past    |-> IF ~IsNull(prev.present)
                 THEN SliceLast(Append(prev.past, Get(prev.present)), maxSize)
                 ELSE prev.past,
     present |-> Some(batch),
     future  |-> <<>>]

\* the state updater of batchChanges
batchChangesUpdater(prev, changes) ==
    [past    |-> IF ~IsNull(prev.present)
                 THEN SliceLast(Append(prev.past, Get(prev.present)), maxSize)
                 ELSE prev.past,
     present |-> Some(changes),
     future  |-> <<>>]

\* the state updater of undo
undoUpdater(prev) ==
    IF Len(prev.past) = 0 THEN prev
    ELSE [past    |-> DropLast(prev.past),
          present |-> Some(prev.past[Len(prev.past)]),
          future  |-> IF ~IsNull(prev.present)
                      THEN SliceFirst(<<Get(prev.present)>> \o prev.future, maxSize)
                      ELSE prev.future]

\* what the updater of undo assigns to undoneChanges when it runs
undoAssigned(prev) ==
    IF Len(prev.past) = 0 THEN Null ELSE prev.present

\* mutant of redoUpdater: with nothing to redo, present is still pushed
\* onto past
redoUpdater_pushesPresent(prev) ==
    IF Len(prev.future) = 0
    THEN [past    |-> IF ~IsNull(prev.present)
                      THEN SliceLast(Append(prev.past, Get(prev.present)), maxSize)
                      ELSE prev.past,
          present |-> Null,
          future  |-> <<>>]
    ELSE [past    |-> IF ~IsNull(prev.present)
                      THEN SliceLast(Append(prev.past, Get(prev.present)), maxSize)
                      ELSE prev.past,
          present |-> Some(Head(prev.future)),
          future  |-> Tail(prev.future)]

\* the state updater of redo
redoUpdater(prev) ==
    IF Len(prev.future) = 0 THEN prev
    ELSE [past    |-> IF ~IsNull(prev.present)
                      THEN SliceLast(Append(prev.past, Get(prev.present)), maxSize)
                      ELSE prev.past,
          present |-> Some(Head(prev.future)),
          future  |-> Tail(prev.future)]

\* what the updater of redo assigns to redoneChanges when it runs
redoAssigned(prev) ==
    IF Len(prev.future) = 0 THEN Null ELSE Some(Head(prev.future))

\* React runs the updater handed to setState inside the setState call only
\* when no update is queued for the component; otherwise it runs it at the
\* next render, after the calling function has returned.
RunsEagerly(lanes) == ~lanes

\* mutant of ClearTimeout: the timer armed before is left to fire
ClearTimeout_keepsTimer(ref, n) == n

\* clearTimeout(batchTimerRef.current): the number of callbacks still due
ClearTimeout(ref, n) == IF ref = "live" THEN n - 1 ELSE n

NoRun == [index |-> 0, first |-> Null, last |-> Null]

\* the row of calls after one more pushChange
NextRun(r, change) ==
    IF r.index > 0 /\ Get(r.last).selector = change.selector
                   /\ Get(r.last).property = change.property
    THEN [r EXCEPT !.last = Some(change)]
    ELSE [index |-> r.index + 1, first |-> Some(change), last |-> Some(change)]

HistIdle ==
    /\ state = InitialState
    /\ pendingChangesRef = <<>>
    /\ batchTimerRef = "null"
    /\ timers = 0
    /\ fiberLanes = FALSE
    /\ clock = 0
    /\ lastCall = [op |-> "none", returned |-> Null]
    /\ run = NoRun

\* pushChange(change)
pushChange ==
    /\ clock < MaxPushes
    /\ \E target \in Targets, vals \in ValueChanges :
         LET change == StyleChange(clock + 1, target[1], target[2], vals[1], vals[2])
             pending == PushPending(pendingChangesRef, change)
         IN /\ Len(pending) <= MaxPending
            /\ pendingChangesRef' = pending
            /\ run' = NextRun(run, change)
    /\ timers' = ClearTimeout(batchTimerRef, timers) + 1
    /\ batchTimerRef' = "live"
    /\ clock' = clock + 1
    /\ lastCall' = [op |-> "pushChange", returned |-> Null]
    /\ UNCHANGED <<state, fiberLanes>>
    /\ UNCHANGED <<patchVars, chatVars, streamVars, editorVars, persistVars, validVars>>

\* the debounce timer fires and calls flushBatch
flushBatch ==
    /\ timers > 0
    /\ timers' = timers - 1
    /\ batchTimerRef' = IF timers = 1 /\ batchTimerRef = "live" THEN "dead"
                        ELSE batchTimerRef
    /\ IF Len(pendingChangesRef) = 0
       THEN UNCHANGED <<state, pendingChangesRef, fiberLanes>>
       ELSE /\ state' = flushBatchUpdater(state, pendingChangesRef)
            /\ pendingChangesRef' = <<>>
            /\ fiberLanes' = TRUE
    /\ lastCall' = [op |-> "flushBatch", returned |-> Null]
    /\ run' = NoRun
    /\ UNCHANGED clock
    /\ UNCHANGED <<patchVars, chatVars, streamVars, editorVars, persistVars, validVars>>

\* mutant of batchChanges: the pending list is not emptied
batchChanges_keepsPending ==
    /\ \E changes \in BatchInputs :
         state' = batchChangesUpdater(state, changes)
    /\ timers' = ClearTimeout(batchTimerRef, timers)
    /\ batchTimerRef' = IF batchTimerRef = "live" THEN "dead" ELSE batchTimerRef
    /\ UNCHANGED pendingChangesRef
    /\ fiberLanes' = TRUE
    /\ lastCall' = [op |-> "batchChanges", returned |-> Null]
    /\ run' = NoRun
    /\ UNCHANGED clock
    /\ UNCHANGED <<patchVars, chatVars, streamVars, editorVars, persistVars, validVars>>

\* batchChanges(changes)
batchChanges ==
    /\ \E changes \in BatchInputs :
         state' = batchChangesUpdater(state, changes)
    /\ timers' = ClearTimeout(batchTimerRef, timers)
    /\ batchTimerRef' = IF batchTimerRef = "live" THEN "dead" ELSE batchTimerRef
    /\ pendingChangesRef' = <<>>
    /\ fiberLanes' = TRUE
    /\ lastCall' = [op |-> "batchChanges", returned |-> Null]
    /\ run' = NoRun
    /\ UNCHANGED clock
    /\ UNCHANGED <<patchVars, chatVars, streamVars, editorVars, persistVars, validVars>>

\* undo()
undo ==
    LET flush     == Len(pendingChangesRef) > 0
        flushedSt == IF flush THEN flushBatchUpdater(state, pendingChangesRef)
                     ELSE state
        lanes     == fiberLanes \/ flush
        eager     == RunsEagerly(lanes)
    IN /\ timers' = ClearTimeout(batchTimerRef, timers)
       /\ batchTimerRef' = "null"
       /\ pendingChangesRef' = <<>>
       /\ state' = undoUpdater(flushedSt)
       /\ fiberLanes' = (lanes \/ Len(flushedSt.past) > 0)
       /\ lastCall' = [op |-> "undo",
                       returned |-> IF eager THEN undoAssigned(flushedSt) ELSE Null]
       /\ run' = NoRun
       /\ UNCHANGED clock
       /\ UNCHANGED <<patchVars, chatVars, streamVars, editorVars, persistVars, validVars>>

\* redo()
redo ==
    LET eager == RunsEagerly(fiberLanes)
    IN /\ state' = redoUpdater(state)
       /\ fiberLanes' = (fiberLanes \/ Len(state.future) > 0)
       /\ lastCall' = [op |-> "redo",
                       returned |-> IF eager THEN redoAssigned(state) ELSE Null]
       /\ UNCHANGED <<pendingChangesRef, batchTimerRef, timers, clock, run>>
       /\ UNCHANGED <<patchVars, chatVars, streamVars, editorVars, persistVars, validVars>>

\* clear()
clear ==
    /\ timers' = ClearTimeout(batchTimerRef, timers)
    /\ batchTimerRef' = "null"
    /\ pendingChangesRef' = <<>>
    /\ state' = InitialState
    /\ fiberLanes' = TRUE
    /\ lastCall' = [op |-> "clear", returned |-> Null]
    /\ run' = NoRun
    /\ UNCHANGED clock
    /\ UNCHANGED <<patchVars, chatVars, streamVars, editorVars, persistVars, validVars>>

\* React renders the component: the queued updates are processed
Render ==
    /\ fiberLanes
    /\ fiberLanes' = FALSE
    /\ UNCHANGED <<state, pendingChangesRef, batchTimerRef, timers, clock, lastCall,
                   run>>
    /\ UNCHANGED <<patchVars, chatVars, streamVars, editorVars, persistVars, validVars>>

HistNext ==
    \/ pushChange
    \/ flushBatch
    \/ batchChanges
    \/ undo
    \/ redo
    \/ clear
    \/ Render


-----------------------------------------------------------------------------
(* Generation sessions: src/lib/prompts/frontend-design.ts, useAIChat *)

Sessions == 1..MaxSessions

\* the data of the content events and of the thinking events of the stream
ContentFragments == { <<DOCTYPE, "a", HTML_CLOSE>>, <<"b">> }
ThinkingFragments == { <<"t">> }

\* the lines of one chunk, as the loop at 761-779 sees them: a content event,
\* a thinking event, or a line that is skipped (no "data: " prefix, JSON that
\* does not parse, another type)
StreamLines ==
    { [type |-> "content", data |-> f] : f \in ContentFragments }
      \cup { [type |-> "thinking", data |-> f] : f \in ThinkingFragments }
      \cup { [type |-> "skipped", data |-> <<>>] }

\* the async body of the call is suspended at an await
InFlight(s) == pc[s] \in {"fetch", "errorBody", "read"}

\* the call has settled
Settled(s) == pc[s] \in {"completed", "failed", "cancelled"}

\* the next call of sendMessage
NextSession == Min({ s \in Sessions : pc[s] = "unused" } \cup {MaxSessions + 1})

\* abort() has rejected the promise a call awaits: its continuation (catch
\* and finally) is a microtask, which runs before any other event
AbortPending == \E s \in Sessions : InFlight(s) /\ aborted[s]

NoCalls == [complete |-> 0, error |-> 0, late |-> 0]

ChatIdle ==
    /\ abortControllerRef = 0
    /\ pc = [s \in Sessions |-> "unused"]
    /\ aborted = [s \in Sessions |-> FALSE]
    /\ fullContent = [s \in Sessions |-> <<>>]
    /\ fullThinking = [s \in Sessions |-> <<>>]
    /\ reads = [s \in Sessions |-> 0]
    /\ outcome = [s \in Sessions |-> "pending"]
    /\ isGenerating = FALSE
    /\ content = <<>>
    /\ thinking = <<>>
    /\ error = FALSE
    /\ calls = [s \in Sessions |-> NoCalls]
    /\ cancelAsked = [s \in Sessions |-> FALSE]

\* abortControllerRef.current.abort(), when the ref is not null
AbortCurrent(ref, ab) == IF ref # 0 THEN [ab EXCEPT ![ref] = TRUE] ELSE ab

\* the finally block, line 799: abortControllerRef.current = null
FinallyRef(ref, s) == 0

\* the caller asks for the calls in flight to be cancelled
AskCancel == [s \in Sessions |-> cancelAsked[s] \/ InFlight(s)]

\* a callback is invoked for call s: onComplete, onError, or one of
\* onContentUpdate and onThinkingUpdate ("update", not counted)
Invoke(s, kind) ==
    [calls EXCEPT ![s] =
        [complete |-> IF kind = "complete" THEN @.complete + 1 ELSE @.complete,
         error    |-> IF kind = "error" THEN @.error + 1 ELSE @.error,
         late     |-> IF cancelAsked[s] THEN @.late + 1 ELSE @.late]]

\* the locals of a call that has returned are gone
Dropped(f, s) == [f EXCEPT ![s] = <<>>]

\* sendMessage(...), up to its first await (lines 708-735): what it does to
\* the hook
sendMessageStarts ==
    /\ ~AbortPending
    /\ NextSession \in Sessions
    /\ LET s == NextSession
       IN /\ aborted' = AbortCurrent(abortControllerRef, aborted)
          /\ abortControllerRef' = s
          /\ pc' = [pc EXCEPT ![s] = "fetch"]
          /\ cancelAsked' = AskCancel
    /\ isGenerating' = TRUE
    /\ content' = <<>>
    /\ thinking' = <<>>
    /\ error' = FALSE
    /\ UNCHANGED <<fullContent, fullThinking, reads, outcome, calls>>

\* sendMessage(...) with callbacks that leave the rest alone
sendMessage ==
    /\ sendMessageStarts
    /\ UNCHANGED <<histVars, patchVars, streamVars, editorVars, persistVars, validVars>>

\* mutant of Fails: the error is stored but onError is not called
Fails_noCallback(s) ==
    /\ pc' = [pc EXCEPT ![s] = "failed"]
    /\ outcome' = [outcome EXCEPT ![s] = "rejected"]
    /\ error' = TRUE
    /\ isGenerating' = FALSE
    /\ abortControllerRef' = FinallyRef(abortControllerRef, s)
    /\ fullContent' = Dropped(fullContent, s)
    /\ fullThinking' = Dropped(fullThinking, s)
    /\ UNCHANGED <<aborted, reads, content, thinking, cancelAsked, calls>>

\* the catch block for an error that is no AbortError, and the finally
\* block (lines 793-799)
Fails(s) ==
    /\ pc' = [pc EXCEPT ![s] = "failed"]
    /\ outcome' = [outcome EXCEPT ![s] = "rejected"]
    /\ error' = TRUE
    /\ calls' = Invoke(s, "error")
    /\ isGenerating' = FALSE
    /\ abortControllerRef' = FinallyRef(abortControllerRef, s)
    /\ fullContent' = Dropped(fullContent, s)
    /\ fullThinking' = Dropped(fullThinking, s)
    /\ UNCHANGED <<aborted, reads, content, thinking, cancelAsked>>

\* fetch resolves with an ok response that has a body (lines 737-748)
fetchOk(s) ==
    /\ ~AbortPending
    /\ pc[s] = "fetch"
    /\ pc' = [pc EXCEPT ![s] = "read"]
    /\ UNCHANGED <<abortControllerRef, aborted, fullContent, fullThinking, reads,
                   outcome, isGenerating, content, thinking, error, calls,
                   cancelAsked>>
    /\ UNCHANGED <<histVars, patchVars, streamVars, editorVars, persistVars, validVars>>

\* fetch resolves with a response that is not ok: response.json() is awaited
fetchNotOk(s) ==
    /\ ~AbortPending
    /\ pc[s] = "fetch"
    /\ pc' = [pc EXCEPT ![s] = "errorBody"]
    /\ UNCHANGED <<abortControllerRef, aborted, fullContent, fullThinking, reads,
                   outcome, isGenerating, content, thinking, error, calls,
                   cancelAsked>>
    /\ UNCHANGED <<histVars, patchVars, streamVars, editorVars, persistVars, validVars>>

\* the error body is read (or fails to parse): an Error is thrown
errorBodyRead(s) ==
    /\ ~AbortPending
    /\ pc[s] = "errorBody"
    /\ Fails(s)
    /\ UNCHANGED <<histVars, patchVars, streamVars, editorVars, persistVars, validVars>>

\* fetch rejects (network failure), or resolves without a body
fetchFails(s) ==
    /\ ~AbortPending
    /\ pc[s] = "fetch"
    /\ Fails(s)
    /\ UNCHANGED <<histVars, patchVars, streamVars, editorVars, persistVars, validVars>>

\* reader.read() resolves with a chunk that holds one complete line
\* (lines 751-779): what the loop does to the hook
readLine(s, line) ==
    /\ ~AbortPending
    /\ pc[s] = "read"
    /\ reads[s] < MaxReads
    /\ reads' = [reads EXCEPT ![s] = @ + 1]
    /\ CASE line.type = "content" ->
                /\ fullContent' = [fullContent EXCEPT ![s] = @ \o line.data]
                /\ content' = fullContent'[s]
                /\ calls' = Invoke(s, "update")
                /\ UNCHANGED <<fullThinking, thinking>>
           [] line.type = "thinking" ->
                /\ fullThinking' = [fullThinking EXCEPT ![s] = @ \o line.data]
                /\ thinking' = fullThinking'[s]
                /\ calls' = Invoke(s, "update")
                /\ UNCHANGED <<fullContent, content>>
           [] OTHER ->
                UNCHANGED <<fullContent, fullThinking, content, thinking, calls>>
    /\ UNCHANGED <<abortControllerRef, pc, aborted, outcome, isGenerating, error,
                   cancelAsked>>

\* reader.read() resolves with a chunk, with callbacks that leave the rest
\* alone
readChunk(s) ==
    /\ \E line \in StreamLines : readLine(s, line)
    /\ UNCHANGED <<histVars, patchVars, streamVars, editorVars, persistVars, validVars>>

\* reader.read() resolves with done: onComplete, return, finally
\* (lines 753-755, 782-786, 798-799): what it does to the hook
readEnds(s) ==
    /\ ~AbortPending
    /\ pc[s] = "read"
    /\ pc' = [pc EXCEPT ![s] = "completed"]
    /\ outcome' = [outcome EXCEPT ![s] = "html"]
    /\ calls' = Invoke(s, "complete")
    /\ isGenerating' = FALSE
    /\ abortControllerRef' = FinallyRef(abortControllerRef, s)
    /\ fullContent' = Dropped(fullContent, s)
    /\ fullThinking' = Dropped(fullThinking, s)
    /\ UNCHANGED <<aborted, reads, content, thinking, error, cancelAsked>>

\* reader.read() resolves with done, with callbacks that leave the rest alone
readDone(s) ==
    /\ readEnds(s)
    /\ UNCHANGED <<histVars, patchVars, streamVars, editorVars, persistVars, validVars>>

\* reader.read() rejects with a transport error
readFails(s) ==
    /\ ~AbortPending
    /\ pc[s] = "read"
    /\ Fails(s)
    /\ UNCHANGED <<histVars, patchVars, streamVars, editorVars, persistVars, validVars>>

\* the awaited promise of an aborted call rejects with an AbortError: the
\* catch block returns null, then the finally block runs (lines 788-799):
\* what it does to the hook
abortEnds(s) ==
    /\ InFlight(s)
    /\ aborted[s]
    /\ pc' = [pc EXCEPT ![s] = "cancelled"]
    /\ outcome' = [outcome EXCEPT ![s] = "null"]
    /\ isGenerating' = FALSE
    /\ abortControllerRef' = FinallyRef(abortControllerRef, s)
    /\ fullContent' = Dropped(fullContent, s)
    /\ fullThinking' = Dropped(fullThinking, s)
    /\ UNCHANGED <<aborted, reads, content, thinking, error, calls, cancelAsked>>

\* an aborted call ends, with callbacks that leave the rest alone
abortRejected(s) ==
    /\ abortEnds(s)
    /\ UNCHANGED <<histVars, patchVars, streamVars, editorVars, persistVars, validVars>>

\* cancel() (lines 805-810)
cancel ==
    /\ ~AbortPending
    /\ aborted' = AbortCurrent(abortControllerRef, aborted)
    /\ isGenerating' = IF abortControllerRef # 0 THEN FALSE ELSE isGenerating
    /\ cancelAsked' = AskCancel
    /\ UNCHANGED <<abortControllerRef, pc, fullContent, fullThinking, reads,
                   outcome, content, thinking, error, calls>>
    /\ UNCHANGED <<histVars, patchVars, streamVars, editorVars, persistVars, validVars>>

\* reset() (lines 812-817)
reset ==
    /\ ~AbortPending
    /\ content' = <<>>
    /\ thinking' = <<>>
    /\ error' = FALSE
    /\ aborted' = AbortCurrent(abortControllerRef, aborted)
    /\ isGenerating' = IF abortControllerRef # 0 THEN FALSE ELSE isGenerating
    /\ cancelAsked' = AskCancel
    /\ UNCHANGED <<abortControllerRef, pc, fullContent, fullThinking, reads,
                   outcome, calls>>
    /\ UNCHANGED <<histVars, patchVars, streamVars, editorVars, persistVars, validVars>>

ChatNext ==
    \/ sendMessage
    \/ cancel
    \/ reset
    \/ \E s \in Sessions :
         \/ fetchOk(s)
         \/ fetchNotOk(s)
         \/ fetchFails(s)
         \/ errorBodyRead(s)
         \/ readChunk(s)
         \/ readDone(s)
         \/ readFails(s)
         \/ abortRejected(s)

-----------------------------------------------------------------------------
(* Patch engine: calls of applySearchReplace *)

\* a SEARCH/REPLACE block as the model is told to write it
Block(search, rep) ==
    <<SEARCH_MARK, NL>> \o search \o <<NL, SEPARATOR, NL>> \o rep
      \o <<NL, REPLACE_MARK>>

\* a block wrapped in prose
Wrapped(block) == <<"c", NL>> \o block \o <<NL, "c">>

\* documents
Documents ==
    { <<DOCTYPE, "a", "b", "a", HTML_CLOSE>>,
      <<HTML_OPEN, "b", "a", HTML_CLOSE>>,
      <<"a", "b", "a", "b">> }

\* search texts: one that occurs twice in some documents, one with blanks
\* around it, one that occurs at most once, one that never occurs
Searches == { <<"a">>, <<SP, "b", "a", NL>>, <<"a", "b", "a">>, <<"c">> }

\* replace texts: plain, equal to a search text, empty, with $ patterns, and
\* a whole document
Replaces ==
    { <<"c">>, <<"a">>, <<>>, <<"$", "$", "c">>, <<"c", "$", "&">>, <<"c", "$">>,
      <<DOCTYPE, "c", HTML_CLOSE>> }

\* responses without any block
PlainResponses ==
    { <<>>,
      <<"c", SP, "c">>,
      <<DOCTYPE, "c", HTML_CLOSE>>,
      <<NL, DOCTYPE, "c", HTML_CLOSE, NL>>,
      <<HTML_OPEN, "c", HTML_CLOSE>>,
      <<doctype, "c", HTML_CLOSE>>,
      <<"c", NL, FENCE, "html", NL, DOCTYPE, "c", HTML_CLOSE, NL, FENCE>>,
      <<FENCE, "html", NL, "c", NL, FENCE>>,
      <<"c", SP, DOCTYPE, "c", HTML_CLOSE, SP, "c">>,
      <<"c", SP, HTML_OPEN, "c", HTML_CLOSE>>,
      <<DOCTYPE, "c", HTML_CLOSE, NL, "c">>,
      <<HTML_OPEN, "c", HTML_CLOSE, NL, FENCE, "html", NL, "a", NL, FENCE>>,
      <<"c", NL, FENCE, "html", NL, "a", NL, FENCE, NL, DOCTYPE, "c", HTML_CLOSE>>,
      <<doctype, "c", HTML_CLOSE, SP, HTML_OPEN, "a", HTML_CLOSE>> }

\* responses of two blocks: the second one searches what the first one
\* wrote, or what the first one removed
\* <<search, replace, search, replace>> of the two blocks
TwoBlockParts ==
    { <<s1, r1, s2, r2>> : s1 \in { <<"b">>, <<"a">> }, r1 \in { <<"c">>, <<>> },
                           s2 \in { <<"c", "a">>, <<"b", "a">> },
                           r2 \in { <<"b">>, <<"c">> } }

TwoBlocks(parts) ==
    Block(parts[1], parts[2]) \o <<NL>> \o Block(parts[3], parts[4])

TwoBlockResponses == { TwoBlocks(parts) : parts \in TwoBlockParts }

Responses ==
    { Block(srch, rep) : srch \in Searches, rep \in Replaces }
      \cup { Wrapped(Block(srch, rep)) : srch \in Searches, rep \in Replaces }
      \cup PlainResponses \cup TwoBlockResponses

PatchIdle ==
    /\ originalHtml = <<>>
    /\ aiResponse = <<>>
    /\ patchResult = Null
    /\ reapplied = Null
    /\ extracted = Null

PatchInputs ==
    /\ originalHtml \in Documents
    /\ aiResponse \in Responses
    /\ patchResult = Null
    /\ reapplied = Null
    /\ extracted = Null

\* one call of applySearchReplace(originalHtml, aiResponse)
applySearchReplaceCall ==
    /\ IsNull(patchResult)
    /\ patchResult' = Some(applySearchReplace(originalHtml, aiResponse))
    /\ UNCHANGED <<originalHtml, aiResponse, reapplied, extracted>>
    /\ UNCHANGED <<histVars, chatVars, streamVars, editorVars, persistVars, validVars>>

\* the same AI output applied once more, to the document the first call
\* returned: applySearchReplace(patched, aiResponse)
applySearchReplaceAgain ==
    /\ ~IsNull(patchResult)
    /\ IsNull(reapplied)
    /\ reapplied' = Some(applySearchReplace(Get(patchResult), aiResponse))
    /\ UNCHANGED <<originalHtml, aiResponse, patchResult, extracted>>
    /\ UNCHANGED <<histVars, chatVars, streamVars, editorVars, persistVars, validVars>>

\* one call of extractHtml(aiResponse)
extractHtmlCall ==
    /\ IsNull(extracted)
    /\ extracted' = Some(extractHtml(aiResponse))
    /\ UNCHANGED <<originalHtml, aiResponse, patchResult, reapplied>>
    /\ UNCHANGED <<histVars, chatVars, streamVars, editorVars, persistVars, validVars>>

PatchNext ==
    \/ applySearchReplaceCall
    \/ applySearchReplaceAgain
    \/ extractHtmlCall

-----------------------------------------------------------------------------
(* Stream decoders: src/app/api/ai/route.ts, POST (the start function of   *)
(* the ReadableStream), and the read loop of sendMessage.  The provider's  *)
(* bytes reach the route in chunks of any size; the events the route       *)
(* enqueues reach the client in chunks of any size.                        *)

DATA      == "data:"
DONE_MARK == "[DONE]"
ESC_NL    == "\\n"

\* the texts of the content and reasoning deltas: one of them holds a blank
\* line
DeltaTexts == { <<"a">>, <<"b", NL, NL, "c">> }

\* the provider's lines: a content delta, a delta with content and
\* reasoning, a data line whose payload is cut off, and the sentinel
Delta(c, r) == [kind |-> "delta", content |-> c, reasoning |-> r]
Malformed == [kind |-> "malformed", content |-> <<>>, reasoning |-> <<>>]
Sentinel == [kind |-> "done", content |-> <<>>, reasoning |-> <<>>]

LineKinds ==
    { Delta(<<"a">>, <<>>), Delta(<<"b", NL, NL, "c">>, <<"a">>),
      Malformed, Sentinel }

\* the bodies the provider may send
RECURSIVE SeqsUpTo(_, _)
SeqsUpTo(S, n) ==
    IF n = 0 THEN { <<>> }
    ELSE SeqsUpTo(S, n - 1)
           \cup { Append(q, x) : q \in { r \in SeqsUpTo(S, n - 1) : Len(r) = n - 1 },
                                 x \in S }

UpstreamBodies == SeqsUpTo(LineKinds, MaxLines)

\* JSON.stringify of a string: a line feed is written as \n
RECURSIVE escape(_)
escape(text) ==
    IF Len(text) = 0 THEN <<>>
    ELSE <<IF text[1] = NL THEN ESC_NL ELSE text[1]>> \o escape(Tail(text))

\* the JSON text of a chunk of the provider:
\* {"choices":[{"delta":{"content":c,"reasoning":r}}]}, a field being left
\* out when its text is empty
providerJson(c, r) ==
    <<"{">> \o (IF c = <<>> THEN <<>> ELSE <<"content">> \o escape(c))
            \o (IF r = <<>> THEN <<>> ELSE <<"reasoning">> \o escape(r))
            \o <<"}">>

\* one line of the provider, without its line end
lineText(l) ==
    CASE l.kind = "delta" -> <<DATA, SP>> \o providerJson(l.content, l.reasoning)
      [] l.kind = "malformed" -> <<DATA, SP, "{", "content", "a">>
      [] l.kind = "done" -> <<DATA, SP, DONE_MARK>>

\* the bytes of a body: every line is followed by a blank line
RECURSIVE bodyBytes(_)
bodyBytes(ls) ==
    IF Len(ls) = 0 THEN <<>>
    ELSE lineText(ls[1]) \o <<NL, NL>> \o bodyBytes(Tail(ls))

\* str.split(sep) for a separator of n line feeds (n = 1: "\n", n = 2:
\* "\n\n"): the pieces between the separators, found from left to right
IsSeparatorAt(str, i, n) ==
    /\ i + n - 1 <= Len(str)
    /\ \A k \in i..(i + n - 1) : str[k] = NL

\* the position of the first separator at or after i, 0 when there is none
RECURSIVE indexOf(_, _, _)
indexOf(str, i, n) ==
    IF i + n - 1 > Len(str) THEN 0
    ELSE IF IsSeparatorAt(str, i, n) THEN i
    ELSE indexOf(str, i + 1, n)

RECURSIVE split(_, _)
split(str, n) ==
    LET at == indexOf(str, 1, n)
    IN IF at = 0 THEN <<str>>
       ELSE <<SubSeq(str, 1, at - 1)>>
              \o split(SubSeq(str, at + n, Len(str)), n)

\* line.startsWith("data: ")
startsWithData(line) == Len(line) >= 2 /\ line[1] = DATA /\ line[2] = SP

\* line.slice(6)
slice6(line) == SubSeq(line, 3, Len(line))

\* JSON.parse(data) and the two optional chains of route.ts, lines 199-201:
\* the content and the reasoning of the delta, empty when the text does not
\* parse or the field is missing
providerDelta(data) ==
    LET known == { d \in (DeltaTexts \cup { <<>> }) \X (DeltaTexts \cup { <<>> }) :
                     providerJson(d[1], d[2]) = data }
    IN IF known = {} THEN [content |-> <<>>, reasoning |-> <<>>]
       ELSE LET d == CHOOSE x \in known : TRUE
            IN [content |-> d[1], reasoning |-> d[2]]

Event(type, data) == [type |-> type, data |-> data]

\* mutant of deltaEvents: the thinking event is enqueued first
deltaEvents_thinkingFirst(data) ==
    LET d == providerDelta(data)
    IN (IF d.reasoning # <<>> THEN <<Event("thinking", d.reasoning)>> ELSE <<>>)
         \o (IF d.content # <<>> THEN <<Event("content", d.content)>>
             ELSE <<>>)

\* the events enqueued for one parsed line (route.ts, lines 203-213)
deltaEvents(data) ==
    LET d == providerDelta(data)
    IN (IF d.content # <<>> THEN <<Event("content", d.content)>> ELSE <<>>)
         \o (IF d.reasoning # <<>> THEN <<Event("thinking", d.reasoning)>>
             ELSE <<>>)

\* mutant of serverLines: the sentinel is a line like any other
RECURSIVE serverLines_pastSentinel(_, _, _)
serverLines_pastSentinel(lines, i, events) ==
    IF i > Len(lines) THEN [events |-> events, closed |-> FALSE]
    ELSE IF ~startsWithData(lines[i])
         THEN serverLines_pastSentinel(lines, i + 1, events)
    ELSE serverLines_pastSentinel(lines, i + 1,
                     events \o deltaEvents(trim(slice6(lines[i]))))

\* mutant of serverLines: a payload that does not parse ends the loop
RECURSIVE serverLines_stopsAtMalformed(_, _, _)
serverLines_stopsAtMalformed(lines, i, events) ==
    IF i > Len(lines) THEN [events |-> events, closed |-> FALSE]
    ELSE IF ~startsWithData(lines[i])
         THEN serverLines_stopsAtMalformed(lines, i + 1, events)
    ELSE IF trim(slice6(lines[i])) = <<DONE_MARK>>
         THEN [events |-> events, closed |-> TRUE]
    ELSE IF trim(slice6(lines[i])) = <<"{", "content", "a">>
         THEN [events |-> events, closed |-> FALSE]
    ELSE serverLines_stopsAtMalformed(lines, i + 1,
                     events \o deltaEvents(trim(slice6(lines[i]))))

\* the for loop of route.ts over the complete lines of a chunk, from line i
\* on, events being what was enqueued before: the events enqueued, and
\* whether the sentinel closed the stream
RECURSIVE serverLines(_, _, _)
serverLines(lines, i, events) ==
    IF i > Len(lines) THEN [events |-> events, closed |-> FALSE]
    ELSE IF ~startsWithData(lines[i]) THEN serverLines(lines, i + 1, events)
    ELSE IF trim(slice6(lines[i])) = <<DONE_MARK>>
         THEN [events |-> events, closed |-> TRUE]
    ELSE serverLines(lines, i + 1,
                     events \o deltaEvents(trim(slice6(lines[i]))))

\* the complete lines of a chunk: all pieces but the last one
Front(pieces) == SubSeq(pieces, 1, Len(pieces) - 1)

\* mutant of Last: the unfinished line is dropped, not kept for the next read
Last_dropped(pieces) == <<>>

\* what is left in the buffer after the lines are taken (lines.pop() || "")
Last(pieces) == pieces[Len(pieces)]

\* one turn of the while loop of route.ts for a chunk (lines 185-217)
serverChunk(buf, chunk) ==
    LET pieces == split(buf \o chunk, 1)
    IN [buffer |-> Last(pieces), done |-> serverLines(Front(pieces), 1, <<>>)]

\* JSON.stringify({ type, data }) of route.ts, lines 205 and 211
clientJson(ev) == <<"{", ev.type>> \o escape(ev.data) \o <<"}">>

\* a line of a response body whose payload is cut off
MalformedEvent == Event("malformed", <<>>)

\* the bytes enqueued for an event
encode(ev) ==
    <<DATA, SP>>
      \o (IF ev = MalformedEvent THEN <<"{", "content", "a">> ELSE clientJson(ev))
      \o <<NL, NL>>

\* response bodies handed to the read loop of sendMessage as they are: their
\* lines are content events, thinking events and lines that do not parse
ResponseLineKinds ==
    { Event("content", <<"a">>), Event("content", <<"b", NL, NL, "c">>),
      Event("thinking", <<"a">>), MalformedEvent }

ResponseBodies == SeqsUpTo(ResponseLineKinds, MaxLines)

RECURSIVE encodeAll(_)
encodeAll(evs) ==
    IF Len(evs) = 0 THEN <<>> ELSE encode(evs[1]) \o encodeAll(Tail(evs))

\* JSON.parse(line.slice(6)) of sendMessage, line 763: the event, of type
\* "none" when the text does not parse or is no content or thinking event
clientEvent(data) ==
    LET known == { ev \in { Event(t, d) : t \in {"content", "thinking"},
                                            d \in DeltaTexts } :
                     clientJson(ev) = trim(data) }
    IN IF known = {} THEN Event("none", <<>>) ELSE CHOOSE ev \in known : TRUE

\* the for loop of sendMessage over the complete lines of a chunk, from
\* line i on (lines 761-778): the callbacks made, and the texts accumulated
RECURSIVE clientLines(_, _, _, _)
clientLines(lines, i, events, full) ==
    IF i > Len(lines) THEN [events |-> events, full |-> full]
    ELSE IF ~startsWithData(lines[i]) THEN clientLines(lines, i + 1, events, full)
    ELSE LET ev == clientEvent(slice6(lines[i]))
         IN IF ev.type = "none" THEN clientLines(lines, i + 1, events, full)
            ELSE clientLines(lines, i + 1,
                   Append(events, Event(ev.type, full[ev.type] \o ev.data)),
                   [full EXCEPT ![ev.type] = @ \o ev.data])

NoText == [content |-> <<>>, thinking |-> <<>>]

\* one turn of the while loop of sendMessage for a chunk (lines 758-779)
clientChunk(buf, chunk, full) ==
    LET pieces == split(buf \o chunk, 2)
    IN [buffer |-> Last(pieces),
        done   |-> clientLines(Front(pieces), 1, <<>>, full)]

\* the bytes of the provider, and the bytes of the response body
Upstream == bodyBytes(upLines)
Wire == encodeAll(enqueued)

StreamIdle ==
    /\ upLines = <<>>
    /\ upPos = 0
    /\ srvBuffer = <<>>
    /\ enqueued = <<>>
    /\ srvState = "idle"
    /\ readFailed = FALSE
    /\ cliPos = 0
    /\ cliBuffer = <<>>
    /\ cliEvents = <<>>
    /\ cliFull = NoText
    /\ cliState = "idle"

\* either the route starts to decode a body of the provider, or a response
\* body is complete and the client starts to read it
StreamStart ==
    /\ \/ /\ upLines \in UpstreamBodies
          /\ enqueued = <<>>
          /\ srvState = "readable"
       \/ /\ upLines = <<>>
          /\ enqueued \in ResponseBodies
          /\ srvState = "closed"
    /\ upPos = 0
    /\ srvBuffer = <<>>
    /\ readFailed = FALSE
    /\ cliPos = 0
    /\ cliBuffer = <<>>
    /\ cliEvents = <<>>
    /\ cliFull = NoText
    /\ cliState = "reading"

\* route.ts: reader.read() resolves with a chunk of n bytes (lines 178-217)
srvRead ==
    /\ srvState = "readable"
    /\ LET bytes == Upstream
       IN \E n \in 1..(Len(bytes) - upPos) :
            \E step \in { serverChunk(srvBuffer,
                                        SubSeq(bytes, upPos + 1, upPos + n)) } :
               /\ upPos' = upPos + n
               /\ srvBuffer' = step.buffer
               /\ enqueued' = enqueued \o step.done.events
               /\ srvState' = IF step.done.closed THEN "closed" ELSE "readable"
    /\ UNCHANGED <<upLines, readFailed, cliPos, cliBuffer, cliEvents, cliFull,
                   cliState>>
    /\ UNCHANGED <<histVars, patchVars, chatVars, editorVars, persistVars, validVars>>

\* route.ts: reader.read() resolves with done (lines 180-183)
srvReadDone ==
    /\ srvState = "readable"
    /\ upPos = Len(Upstream)
    /\ srvState' = "closed"
    /\ UNCHANGED <<upLines, upPos, srvBuffer, enqueued, readFailed, cliPos,
                   cliBuffer, cliEvents, cliFull, cliState>>
    /\ UNCHANGED <<histVars, patchVars, chatVars, editorVars, persistVars, validVars>>

\* mutant of AfterReadError: the error is swallowed and the loop goes on
AfterReadError_goesOn == "readable"

\* what the catch block of route.ts leaves the output stream in
\* (controller.error, line 222)
AfterReadError == "errored"

\* route.ts: reader.read() rejects (lines 220-223)
srvReadError ==
    /\ srvState = "readable"
    /\ ~readFailed
    /\ readFailed' = TRUE
    /\ srvState' = AfterReadError
    /\ UNCHANGED <<upLines, upPos, srvBuffer, enqueued, cliPos, cliBuffer,
                   cliEvents, cliFull, cliState>>
    /\ UNCHANGED <<histVars, patchVars, chatVars, editorVars, persistVars, validVars>>

\* sendMessage: reader.read() resolves with a chunk of n bytes.  The
\* response is delivered once the route has closed its stream, in chunks of
\* any size: what the loop does depends on the bytes it is given only.
cliRead ==
    /\ cliState = "reading"
    /\ srvState = "closed"
    /\ LET bytes == Wire
       IN \E n \in 1..(Len(bytes) - cliPos) :
            \E step \in { clientChunk(cliBuffer,
                                        SubSeq(bytes, cliPos + 1, cliPos + n),
                                        cliFull) } :
               /\ cliPos' = cliPos + n
               /\ cliBuffer' = step.buffer
               /\ cliEvents' = cliEvents \o step.done.events
               /\ cliFull' = step.done.full
    /\ UNCHANGED <<upLines, upPos, srvBuffer, enqueued, srvState, readFailed,
                   cliState>>
    /\ UNCHANGED <<histVars, patchVars, chatVars, editorVars, persistVars, validVars>>

\* sendMessage: reader.read() resolves with done, the route has closed its
\* stream and all of it was read
cliReadDone ==
    /\ cliState = "reading"
    /\ srvState = "closed"
    /\ cliPos = Len(Wire)
    /\ cliState' = "done"
    /\ UNCHANGED <<upLines, upPos, srvBuffer, enqueued, srvState, readFailed,
                   cliPos, cliBuffer, cliEvents, cliFull>>
    /\ UNCHANGED <<histVars, patchVars, chatVars, editorVars, persistVars, validVars>>

\* sendMessage: reader.read() rejects, the route's stream is errored
cliReadError ==
    /\ cliState = "reading"
    /\ srvState = "errored"
    /\ cliState' = "failed"
    /\ UNCHANGED <<upLines, upPos, srvBuffer, enqueued, srvState, readFailed,
                   cliPos, cliBuffer, cliEvents, cliFull>>
    /\ UNCHANGED <<histVars, patchVars, chatVars, editorVars, persistVars, validVars>>

StreamNext ==
    \/ srvRead
    \/ srvReadDone
    \/ srvReadError
    \/ cliRead
    \/ cliReadDone
    \/ cliReadError

-----------------------------------------------------------------------------
(* The editor: src/unnamed/part_003, EditorLayoutNew.  The component owns  *)
(* the document (htmlContent) and hands its callbacks to useAIChat; a call *)
(* of sendMessage keeps the callbacks, and with them the state values, of  *)
(* the render in which handleSend was called.  The code editor is taken to *)
(* call onChange for what the user types only, and to take no typing while *)
(* its readOnly option is set.                                             *)

MARKER == "CINEMATHEQUE_TEMPLATE_LOADING"

\* LOADING_HTML (lines 210-233)
LOADING_HTML == <<DOCTYPE, MARKER, HTML_CLOSE>>

\* the text the template endpoint answers with
TEMPLATE_HTML == <<DOCTYPE, "a", "b", HTML_CLOSE>>

\* what the user types into the code editor
TypedTexts == { <<DOCTYPE, "b", HTML_CLOSE>> }

ViewModes == {"preview", "design", "code"}

\* the lines of a chunk: a content event that carries a document, one that
\* carries a SEARCH/REPLACE block, and a thinking event
EditorLines ==
    { [type |-> "content", data |-> <<DOCTYPE, "a", HTML_CLOSE>>],
      [type |-> "content", data |-> Block(<<"a">>, <<"c">>)],
      [type |-> "thinking", data |-> <<"t">>] }

\* the attributes the style panel sets on the selected element
STYLE_ATTR == "style="
ID_ATTR    == "id="

userMessage ==
    [role |-> "user", content |-> "prompt", isThinking |-> FALSE,
     thinkingContent |-> <<>>]

assistantMessage ==
    [role |-> "assistant", content |-> "", isThinking |-> TRUE,
     thinkingContent |-> <<>>]

BUILT == "Built. Code updated in the editor."
ERROR == "Error: "

NoClosure == [hasGeneratedOnce |-> FALSE, htmlContent |-> <<>>]
NoRequest == [isFollowUp |-> FALSE, currentHtml |-> Null]

EditorIdle ==
    /\ htmlContent = LOADING_HTML
    /\ hasGeneratedOnce = FALSE
    /\ messages = <<>>
    /\ draftAiOutput = <<>>
    /\ viewMode = "preview"
    /\ selectedElement = FALSE
    /\ templateFetch = "loading"
    /\ closure = [s \in Sessions |-> NoClosure]
    /\ request = [s \in Sessions |-> NoRequest]

\* setMessages(prev => ...): the last message, when it is the assistant's,
\* is replaced by the message given
MapLast(prev, message) ==
    IF Len(prev) > 0 /\ prev[Len(prev)].role = "assistant"
    THEN [prev EXCEPT ![Len(prev)] = message]
    ELSE prev

\* prev[prev.length - 1]
lastMessage == messages[Len(messages)]

\* doc.documentElement.outerHTML after DOMParser has parsed the text and the
\* handler has set an attribute on the selected element: the html element
\* with what it holds, without the document type
outerHTML(text, attr) ==
    <<HTML_OPEN>>
      \o SelectSeq(text, LAMBDA ch :
                     ch \notin {DOCTYPE, doctype, HTML_OPEN, HTML_CLOSE, attr})
      \o <<attr, HTML_CLOSE>>

\* the effect of lines 270-291, when the template has been fetched
templateLoaded ==
    /\ templateFetch = "loading"
    /\ templateFetch' = "loaded"
    /\ htmlContent' = IF includes(htmlContent, <<MARKER>>) THEN TEMPLATE_HTML
                      ELSE htmlContent
    /\ UNCHANGED <<hasGeneratedOnce, messages, draftAiOutput,
                   viewMode, selectedElement, closure, request>>
    /\ UNCHANGED <<histVars, patchVars, chatVars, streamVars, persistVars, validVars>>

\* handleSend (lines 358-400) for a message that is not blank, signed in
handleSend ==
    /\ NextSession <= MaxGenerations
    /\ sendMessageStarts
    /\ messages' = messages \o <<userMessage, assistantMessage>>
    /\ viewMode' = "code"
    /\ draftAiOutput' = <<>>
    /\ closure' = [closure EXCEPT ![NextSession] =
                     [hasGeneratedOnce |-> hasGeneratedOnce,
                      htmlContent |-> htmlContent]]
    /\ request' = [request EXCEPT ![NextSession] =
                     [isFollowUp |-> Len(messages) > 0,
                      currentHtml |-> IF Len(messages) > 0
                                      THEN Some(htmlContent) ELSE Null]]
    /\ UNCHANGED <<htmlContent, hasGeneratedOnce,
                   selectedElement, templateFetch>>
    /\ UNCHANGED <<histVars, patchVars, streamVars, persistVars, validVars>>

\* mutant of onContentUpdate: the text received so far is written to the
\* document as well
onContentUpdate_writesDocument(text) ==
    /\ draftAiOutput' = text
    /\ htmlContent' = text

\* onContentUpdate (lines 299-302)
onContentUpdate(text) ==
    /\ draftAiOutput' = text
    /\ UNCHANGED htmlContent

\* onThinkingUpdate (lines 303-313)
onThinkingUpdate(text) ==
    messages' =
      MapLast(messages,
              [lastMessage EXCEPT !.thinkingContent = text, !.isThinking = TRUE])

\* mutant of onComplete: the computed content is written without the test
\* for a document marker
onComplete_writesUnchecked(s, rawContent) ==
    LET isFollowUp == closure[s].hasGeneratedOnce
        newHtml == IF isFollowUp
                   THEN applySearchReplace(closure[s].htmlContent, rawContent)
                   ELSE extractHtml(rawContent)
    IN /\ htmlContent' = newHtml
       /\ hasGeneratedOnce' = TRUE
       /\ draftAiOutput' = <<>>
       /\ messages' =
            MapLast(messages,
                    [lastMessage EXCEPT !.isThinking = FALSE, !.content = BUILT])

\* onComplete (lines 314-342) of the render call s holds
onComplete(s, rawContent) ==
    LET isFollowUp == closure[s].hasGeneratedOnce
        newHtml == IF isFollowUp
                   THEN applySearchReplace(closure[s].htmlContent, rawContent)
                   ELSE extractHtml(rawContent)
    IN /\ IF includes(newHtml, <<DOCTYPE>>) \/ includes(newHtml, <<HTML_OPEN>>)
          THEN /\ htmlContent' = newHtml
               /\ hasGeneratedOnce' = TRUE
          ELSE UNCHANGED <<htmlContent, hasGeneratedOnce>>
       /\ draftAiOutput' = <<>>
       /\ messages' =
            MapLast(messages,
                    [lastMessage EXCEPT !.isThinking = FALSE, !.content = BUILT])

\* onError (lines 343-354)
onError ==
    /\ draftAiOutput' = <<>>
    /\ messages' = MapLast(messages, [lastMessage EXCEPT !.content = ERROR])

\* the call has returned: its closure and its request are gone
Returned(s) ==
    /\ closure' = [closure EXCEPT ![s] = NoClosure]
    /\ request' = [request EXCEPT ![s] = NoRequest]

\* fetch rejects, or resolves with an answer that is not ok or has no body:
\* the call fails and onError runs
sessionFetchFails(s) ==
    /\ ~AbortPending
    /\ pc[s] = "fetch"
    /\ Fails(s)
    /\ onError
    /\ Returned(s)
    /\ UNCHANGED <<htmlContent, hasGeneratedOnce, viewMode, selectedElement,
                   templateFetch>>
    /\ UNCHANGED <<histVars, patchVars, streamVars, persistVars, validVars>>

\* reader.read() resolves with a chunk: onContentUpdate or onThinkingUpdate
\* runs
sessionReadChunk(s) ==
    /\ \E line \in EditorLines :
         /\ readLine(s, line)
         /\ CASE line.type = "content" ->
                   /\ onContentUpdate(fullContent'[s])
                   /\ UNCHANGED messages
              [] line.type = "thinking" ->
                   /\ onThinkingUpdate(fullThinking'[s])
                   /\ UNCHANGED <<draftAiOutput, htmlContent>>
              [] OTHER -> UNCHANGED <<draftAiOutput, htmlContent, messages>>
    /\ UNCHANGED <<hasGeneratedOnce, viewMode,
                   selectedElement, templateFetch, closure, request>>
    /\ UNCHANGED <<histVars, patchVars, streamVars, persistVars, validVars>>

\* reader.read() resolves with done: onComplete runs
sessionReadDone(s) ==
    /\ readEnds(s)
    /\ onComplete(s, fullContent[s])
    /\ Returned(s)
    /\ UNCHANGED <<viewMode, selectedElement, templateFetch>>
    /\ UNCHANGED <<histVars, patchVars, streamVars, persistVars, validVars>>

\* reader.read() rejects with a transport error: onError runs
sessionReadFails(s) ==
    /\ ~AbortPending
    /\ pc[s] = "read"
    /\ Fails(s)
    /\ onError
    /\ Returned(s)
    /\ UNCHANGED <<htmlContent, hasGeneratedOnce, viewMode, selectedElement,
                   templateFetch>>
    /\ UNCHANGED <<histVars, patchVars, streamVars, persistVars, validVars>>

\* the call was aborted: no callback runs
sessionAborted(s) ==
    /\ abortEnds(s)
    /\ Returned(s)
    /\ UNCHANGED <<htmlContent, hasGeneratedOnce, messages, draftAiOutput,
                   viewMode, selectedElement, templateFetch>>
    /\ UNCHANGED <<histVars, patchVars, streamVars, persistVars, validVars>>

\* the cancel button of the last message (lines 665-675), shown while the
\* message is thinking and has no content
cancelAI ==
    /\ Len(messages) > 0
    /\ lastMessage.role = "assistant"
    /\ lastMessage.isThinking
    /\ lastMessage.content = ""
    /\ cancel

\* the view tabs of the top bar: onViewModeChange={setViewMode}
setViewMode(mode) ==
    /\ ~AbortPending
    /\ viewMode # mode
    /\ viewMode' = mode
    /\ UNCHANGED <<htmlContent, hasGeneratedOnce, messages,
                   draftAiOutput, selectedElement, templateFetch, closure, request>>
    /\ UNCHANGED <<histVars, patchVars, chatVars, streamVars, persistVars, validVars>>

\* handleElementSelect (lines 427-436): the design view reports a click
handleElementSelect ==
    /\ ~AbortPending
    /\ viewMode = "design"
    /\ ~selectedElement
    /\ selectedElement' = TRUE
    /\ UNCHANGED <<htmlContent, hasGeneratedOnce, messages,
                   draftAiOutput, viewMode, templateFetch, closure, request>>
    /\ UNCHANGED <<histVars, patchVars, chatVars, streamVars, persistVars, validVars>>

\* handleClosePanel (lines 471-474)
handleClosePanel ==
    /\ ~AbortPending
    /\ viewMode = "design"
    /\ selectedElement
    /\ selectedElement' = FALSE
    /\ UNCHANGED <<htmlContent, hasGeneratedOnce, messages,
                   draftAiOutput, viewMode, templateFetch, closure, request>>
    /\ UNCHANGED <<histVars, patchVars, chatVars, streamVars, persistVars, validVars>>

\* handleStyleChange (lines 476-498), from the style panel the design view
\* shows for the selected element: when the selector finds the element, the
\* style is set and the document is replaced by the serialized tree
handleStyleChange ==
    /\ ~AbortPending
    /\ viewMode = "design"
    /\ selectedElement
    /\ \E found \in BOOLEAN :
         htmlContent' = IF found THEN outerHTML(htmlContent, STYLE_ATTR)
                        ELSE htmlContent
    /\ UNCHANGED <<hasGeneratedOnce, messages, draftAiOutput, viewMode,
                   selectedElement, templateFetch, closure, request>>
    /\ UNCHANGED <<histVars, patchVars, chatVars, streamVars, persistVars, validVars>>

\* handleElementChange (lines 500-520), from the same panel: the id and the
\* class are set
handleElementChange ==
    /\ ~AbortPending
    /\ viewMode = "design"
    /\ selectedElement
    /\ \E found \in BOOLEAN :
         htmlContent' = IF found THEN outerHTML(htmlContent, ID_ATTR)
                        ELSE htmlContent
    /\ UNCHANGED <<hasGeneratedOnce, messages, draftAiOutput, viewMode,
                   selectedElement, templateFetch, closure, request>>
    /\ UNCHANGED <<histVars, patchVars, chatVars, streamVars, persistVars, validVars>>

\* handleCodeChange (lines 409-412): the user types in the code editor,
\* which is shown in the code view and is read-only while isGenerating
handleCodeChange(value) ==
    /\ ~AbortPending
    /\ viewMode = "code"
    /\ ~isGenerating
    /\ htmlContent' = value
    /\ UNCHANGED <<hasGeneratedOnce, messages, draftAiOutput, viewMode,
                   selectedElement, templateFetch, closure, request>>
    /\ UNCHANGED <<histVars, patchVars, chatVars, streamVars, persistVars, validVars>>

EditorNext ==
    \/ handleSend
    \/ cancelAI
    \/ templateLoaded
    \/ handleElementSelect
    \/ handleClosePanel
    \/ handleStyleChange
    \/ handleElementChange
    \/ \E mode \in ViewModes : setViewMode(mode)
    \/ \E value \in TypedTexts : handleCodeChange(value)
    \/ \E s \in Sessions :
         \/ fetchOk(s)
         \/ sessionFetchFails(s)
         \/ sessionReadChunk(s)
         \/ sessionReadDone(s)
         \/ sessionReadFails(s)
         \/ sessionAborted(s)

-----------------------------------------------------------------------------
(* Style persistence: useStylePersistence (use-style-history.ts 238-341) *)

\* the selectors, properties and values of the style maps explored
Selectors == {"h1", "p"}

StyleProperties == {"color"}

StyleValues == {"red", "blue"}

\* the order in which JSON.stringify writes the keys (the model's maps are
\* written in one fixed order)
SelectorOrder == <<"h1", "p">>

PropertyOrder == <<"color">>

\* useState<PersistedStyles>({})
EmptyStyles == << >>

\* the PersistedStyles values: selector -> property -> value
StyleMaps ==
    UNION { [S -> UNION { [P -> StyleValues] : P \in SUBSET StyleProperties }]
            : S \in SUBSET Selectors }

\* the maps the callers hand to saveStyles
SavedStyles ==
    { [s \in {"h1"} |-> [q \in {"color"} |-> "red"]],
      [s \in {"h1", "p"} |-> [q \in {"color"} |-> "blue"]] }

RECURSIVE StringifyProperties(_, _)
StringifyProperties(rule, i) ==
    IF i > Len(PropertyOrder) THEN <<>>
    ELSE (IF PropertyOrder[i] \in DOMAIN rule
             THEN <<PropertyOrder[i], ":", rule[PropertyOrder[i]]>>
             ELSE <<>>)
         \o StringifyProperties(rule, i + 1)

RECURSIVE StringifySelectors(_, _)
StringifySelectors(styles, i) ==
    IF i > Len(SelectorOrder) THEN <<>>
    ELSE (IF SelectorOrder[i] \in DOMAIN styles
             THEN <<SelectorOrder[i], ":", "{">>
                  \o StringifyProperties(styles[SelectorOrder[i]], 1)
                  \o <<"}">>
             ELSE <<>>)
         \o StringifySelectors(styles, i + 1)

\* JSON.stringify(styles): the text written to storage
JSONstringify(styles) == <<"{">> \o StringifySelectors(styles, 1) \o <<"}">>

\* JSON.parse(text) returns a value (and does not throw a SyntaxError)
Parses(text) == \E m \in StyleMaps : JSONstringify(m) = text

\* JSON.parse(text)
JSONparse(text) == CHOOSE m \in StyleMaps : JSONstringify(m) = text

\* a stored text JSON.parse rejects
MALFORMED == <<"{">>

\* the item found under storageKey when the hook is created
StoredItems ==
    {Null, Some(MALFORMED)} \cup { Some(JSONstringify(m)) : m \in SavedStyles }

\* what a call of localStorage does: it returns, or it throws (storage
\* disabled, quota exceeded)
StorageOutcomes == {"ok", "throws"}

\* mutant of tryCatch: the exception is thrown on to the caller
tryCatch_rethrows(thrown) == thrown

\* try { ... } catch (e) { console.warn(...) }: whether an exception thrown
\* inside the block leaves the statement
tryCatch(thrown) == FALSE

NoTimer == 0

\* clearTimeout(id): an armed timer is cancelled; a timer that has fired, a
\* cancelled one and null are left as they are
clearTimeout(all, id) ==
    IF id # NoTimer /\ all[id].state = "armed"
    THEN [all EXCEPT ![id].state = "cleared"]
    ELSE all

\* the timers armed and not yet fired or cancelled
ArmedTimers == { id \in 1..Len(saveTimers) : saveTimers[id].state = "armed" }

PersistIdle ==
    /\ enabled = TRUE
    /\ persistedStyles = EmptyStyles
    /\ saveTimerRef = NoTimer
    /\ saveTimers = <<>>
    /\ localStorage = Null
    /\ setItemCalls = <<>>
    /\ hookState = "created"
    /\ escaped = FALSE
    /\ lastOperation = [op |-> "none", failed |-> FALSE]

\* the hook is created: the options and what storage holds
PersistStart ==
    /\ enabled \in BOOLEAN
    /\ persistedStyles = EmptyStyles
    /\ saveTimerRef = NoTimer
    /\ saveTimers = <<>>
    /\ localStorage \in StoredItems
    /\ setItemCalls = <<>>
    /\ hookState = "created"
    /\ escaped = FALSE
    /\ lastOperation = [op |-> "none", failed |-> FALSE]

\* if (stored): getItem has returned a text, and not the empty one
Stored == ~IsNull(localStorage) /\ Get(localStorage) # <<>>

\* the map the load effect leaves when nothing throws: the stored one, or
\* the map as it is when nothing is stored
LoadedStyles ==
    IF Stored /\ Parses(Get(localStorage))
    THEN JSONparse(Get(localStorage))
    ELSE persistedStyles

\* the effect of lines 251-263, run once after the first render
loadEffect(getItem) ==
    /\ hookState = "created"
    /\ hookState' = "mounted"
    /\ IF ~enabled
       THEN /\ getItem = "ok"
            /\ UNCHANGED <<persistedStyles, escaped>>
            /\ lastOperation' = [op |-> "load", failed |-> FALSE]
       ELSE LET thrown == \/ getItem = "throws"
                          \/ (Stored /\ ~Parses(Get(localStorage)))
            IN  /\ persistedStyles' =
                      IF thrown THEN persistedStyles ELSE LoadedStyles
                /\ escaped' = (escaped \/ tryCatch(thrown))
                /\ lastOperation' = [op |-> "load", failed |-> thrown]
    /\ UNCHANGED <<enabled, saveTimerRef, saveTimers, localStorage, setItemCalls>>
    /\ UNCHANGED <<histVars, patchVars, chatVars, streamVars, editorVars, validVars>>

\* mutant of SaveStyles: the timer of the previous call is left armed
SaveStyles_keepsTimer(styles) ==
    IF ~enabled
    THEN UNCHANGED <<saveTimerRef, saveTimers>>
    ELSE /\ saveTimers' = Append(saveTimers,
                                 [styles |-> styles, state |-> "armed"])
         /\ saveTimerRef' = Len(saveTimers) + 1

\* saveStyles (266-285) without the state update: the previous timer is
\* cancelled and a new one is armed, which holds the styles of this call
SaveStyles(styles) ==
    IF ~enabled
    THEN UNCHANGED <<saveTimerRef, saveTimers>>
    ELSE /\ saveTimers' = Append(clearTimeout(saveTimers, saveTimerRef),
                                 [styles |-> styles, state |-> "armed"])
         /\ saveTimerRef' = Len(saveTimers) + 1

saveStyles(styles) ==
    /\ hookState = "mounted"
    /\ Len(saveTimers) < MaxSaves
    /\ persistedStyles' = IF enabled THEN styles ELSE persistedStyles
    /\ SaveStyles(styles)
    /\ lastOperation' = [op |-> "saveStyles", failed |-> FALSE]
    /\ UNCHANGED <<enabled, localStorage, setItemCalls, hookState, escaped>>
    /\ UNCHANGED <<histVars, patchVars, chatVars, streamVars, editorVars, validVars>>

\* { ...prev, [selector]: { ...prev[selector], [property]: value } }
WithStyle(prev, selector, property, value) ==
    LET rule == IF selector \in DOMAIN prev THEN prev[selector] ELSE << >>
    IN  [s \in DOMAIN prev \cup {selector} |->
            IF s = selector
            THEN [q \in DOMAIN rule \cup {property} |->
                     IF q = property THEN value ELSE rule[q]]
            ELSE prev[s]]

\* updateStyle (288-303): the updater computes the new map, hands it to
\* saveStyles and returns it
updateStyle(selector, property, value) ==
    /\ hookState = "mounted"
    /\ Len(saveTimers) < MaxSaves
    /\ persistedStyles' = WithStyle(persistedStyles, selector, property, value)
    /\ SaveStyles(WithStyle(persistedStyles, selector, property, value))
    /\ lastOperation' = [op |-> "updateStyle", failed |-> FALSE]
    /\ UNCHANGED <<enabled, localStorage, setItemCalls, hookState, escaped>>
    /\ UNCHANGED <<histVars, patchVars, chatVars, streamVars, editorVars, validVars>>

\* the callback of setTimeout (277-283): the styles of the call that armed
\* the timer are written
saveTimerFires(id, setItem) ==
    /\ id \in ArmedTimers
    /\ saveTimers' = [saveTimers EXCEPT ![id].state = "fired"]
    /\ setItemCalls' = Append(setItemCalls,
                              [timer |-> id,
                               value |-> JSONstringify(saveTimers[id].styles),
                               ok |-> setItem = "ok"])
    /\ localStorage' = IF setItem = "ok"
                       THEN Some(JSONstringify(saveTimers[id].styles))
                       ELSE localStorage
    /\ escaped' = (escaped \/ tryCatch(setItem = "throws"))
    /\ lastOperation' = [op |-> "write", failed |-> setItem = "throws"]
    /\ UNCHANGED <<enabled, persistedStyles, saveTimerRef, hookState>>
    /\ UNCHANGED <<histVars, patchVars, chatVars, streamVars, editorVars, validVars>>

\* clearStyles (314-323)
clearStyles(removeItem) ==
    /\ hookState = "mounted"
    /\ persistedStyles' = EmptyStyles
    /\ localStorage' = IF removeItem = "ok" THEN Null ELSE localStorage
    /\ escaped' = (escaped \/ tryCatch(removeItem = "throws"))
    /\ lastOperation' = [op |-> "clearStyles", failed |-> removeItem = "throws"]
    /\ UNCHANGED <<enabled, saveTimerRef, saveTimers, setItemCalls, hookState>>
    /\ UNCHANGED <<histVars, patchVars, chatVars, streamVars, editorVars, validVars>>

\* the cleanup of lines 326-332
unmountPersistence ==
    /\ hookState = "mounted"
    /\ hookState' = "unmounted"
    /\ saveTimers' = clearTimeout(saveTimers, saveTimerRef)
    /\ lastOperation' = [op |-> "unmount", failed |-> FALSE]
    /\ UNCHANGED <<enabled, persistedStyles, saveTimerRef, localStorage,
                   setItemCalls, escaped>>
    /\ UNCHANGED <<histVars, patchVars, chatVars, streamVars, editorVars, validVars>>

PersistNext ==
    \/ \E getItem \in StorageOutcomes : loadEffect(getItem)
    \/ \E styles \in SavedStyles : saveStyles(styles)
    \/ \E selector \in Selectors, property \in StyleProperties,
          value \in StyleValues : updateStyle(selector, property, value)
    \/ \E id \in 1..MaxSaves, setItem \in StorageOutcomes :
          saveTimerFires(id, setItem)
    \/ \E removeItem \in StorageOutcomes : clearStyles(removeItem)
    \/ unmountPersistence

-----------------------------------------------------------------------------
(* Style validators (frontend-design.ts 95-664). A string is the sequence of
   its characters; a number is held in tenths, with NaN and the two
   infinities apart. *)

Digits == <<"0", "1", "2", "3", "4", "5", "6", "7", "8", "9">>

DigitChars == { Digits[i] : i \in 1..10 }

UpperCase == <<"A", "B", "C", "D", "E", "F", "G", "H", "I", "J", "K", "L", "M",
               "N", "O", "P", "Q", "R", "S", "T", "U", "V", "W", "X", "Y", "Z">>

LowerCase == <<"a", "b", "c", "d", "e", "f", "g", "h", "i", "j", "k", "l", "m",
               "n", "o", "p", "q", "r", "s", "t", "u", "v", "w", "x", "y", "z">>

\* [0-9A-Fa-f]
HexChars ==
    DigitChars \cup { UpperCase[i] : i \in 1..6 } \cup { LowerCase[i] : i \in 1..6 }

\* String.prototype.toLowerCase
toLowerCase(str) ==
    [i \in 1..Len(str) |->
        IF \E k \in 1..26 : UpperCase[k] = str[i]
        THEN LowerCase[CHOOSE k \in 1..26 : UpperCase[k] = str[i]]
        ELSE str[i]]

\* the numbers: n / 10 for a finite one
Finite(n) == [kind |-> "finite", tenths |-> n]

NaN == [kind |-> "NaN", tenths |-> 0]

Infinity == [kind |-> "Infinity", tenths |-> 0]

NegativeInfinity == [kind |-> "-Infinity", tenths |-> 0]

isNaN(num) == num.kind = "NaN"

\* a < b, for two numbers that are not NaN
LessThan(a, b) ==
    CASE a.kind = "-Infinity" -> b.kind # "-Infinity"
      [] a.kind = "Infinity" -> FALSE
      [] OTHER -> \/ b.kind = "Infinity"
                  \/ (b.kind = "finite" /\ a.tenths < b.tenths)

\* Math.max and Math.min: NaN when an argument is NaN
MathMax(a, b) ==
    IF isNaN(a) \/ isNaN(b) THEN NaN ELSE IF LessThan(a, b) THEN b ELSE a

MathMin(a, b) ==
    IF isNaN(a) \/ isNaN(b) THEN NaN ELSE IF LessThan(a, b) THEN a ELSE b

\* a === b on numbers: NaN is equal to nothing
StrictEquals(a, b) == ~isNaN(a) /\ ~isNaN(b) /\ a = b

\* the index after the longest run of characters of class that starts at i
RECURSIVE SpanEnd(_, _, _)
SpanEnd(str, i, class) ==
    IF i <= Len(str) /\ str[i] \in class THEN SpanEnd(str, i + 1, class) ELSE i

\* the number written by a run of digits
RECURSIVE IntOf(_)
IntOf(digits) ==
    IF digits = <<>> THEN 0
    ELSE IntOf(SubSeq(digits, 1, Len(digits) - 1)) * 10
         + (CHOOSE k \in 1..10 : Digits[k] = digits[Len(digits)]) - 1

\* the digits of a natural number
RECURSIVE IntToChars(_)
IntToChars(n) ==
    IF n < 10 THEN <<Digits[n + 1]>>
    ELSE IntToChars(n \div 10) \o <<Digits[(n % 10) + 1]>>

\* String(num), and a number inside a template literal
NumberToString(num) ==
    CASE num.kind = "NaN" -> <<"N", "a", "N">>
      [] num.kind = "Infinity" -> <<"I", "n", "f", "i", "n", "i", "t", "y">>
      [] num.kind = "-Infinity" -> <<"-">> \o <<"I", "n", "f", "i", "n", "i", "t", "y">>
      [] OTHER ->
           LET abs == IF num.tenths < 0 THEN 0 - num.tenths ELSE num.tenths
           IN  (IF num.tenths < 0 THEN <<"-">> ELSE <<>>)
               \o IntToChars(abs \div 10)
               \o (IF abs % 10 = 0 THEN <<>> ELSE <<".", Digits[(abs % 10) + 1]>>)

\* parseFloat: leading white space, a sign, digits, a point and digits; what
\* follows is ignored. Fraction digits after the first are beyond the
\* tenths of the model, and exponents are not read.
parseFloat(str) ==
    LET s == trim(str)
        neg == Len(s) > 0 /\ s[1] = "-"
        p == IF Len(s) > 0 /\ s[1] \in {"+", "-"} THEN 2 ELSE 1
        q == SpanEnd(s, p, DigitChars)
        dot == q <= Len(s) /\ s[q] = "."
        r == IF dot THEN SpanEnd(s, q + 1, DigitChars) ELSE q
        magnitude == IntOf(SubSeq(s, p, q - 1)) * 10
                     + (IF dot /\ r > q + 1 THEN IntOf(<<s[q + 1]>>) ELSE 0)
    IN  IF Len(s) >= p + 7 /\ SubSeq(s, p, p + 7) = <<"I", "n", "f", "i", "n", "i", "t", "y">>
        THEN (IF neg THEN NegativeInfinity ELSE Infinity)
        ELSE IF q = p /\ (~dot \/ r = q + 1) THEN NaN
        ELSE Finite(IF neg THEN 0 - magnitude ELSE magnitude)

\* a value of type string | number
Str(chars) == [type |-> "string", text |-> chars, num |-> Finite(0)]

Num(num) == [type |-> "number", text |-> <<>>, num |-> num]

\* interface ValidationResult
Valid(value) ==
    [isValid |-> TRUE, sanitizedValue |-> value, error |-> Null, warning |-> Null]

ValidWithWarning(value, warning) ==
    [isValid |-> TRUE, sanitizedValue |-> value, error |-> Null,
     warning |-> Some(warning)]

Invalid(value, message) ==
    [isValid |-> FALSE, sanitizedValue |-> value, error |-> Some(message),
     warning |-> Null]

\* the list namedColors of parseColor
namedColors ==
    {
      <<"t", "r", "a", "n", "s", "p", "a", "r", "e", "n", "t">>,
      <<"i", "n", "h", "e", "r", "i", "t">>,
      <<"i", "n", "i", "t", "i", "a", "l">>,
      <<"c", "u", "r", "r", "e", "n", "t", "C", "o", "l", "o", "r">>,
      <<"b", "l", "a", "c", "k">>, <<"w", "h", "i", "t", "e">>,
      <<"r", "e", "d">>, <<"g", "r", "e", "e", "n">>, <<"b", "l", "u", "e">>,
      <<"y", "e", "l", "l", "o", "w">>, <<"c", "y", "a", "n">>,
      <<"m", "a", "g", "e", "n", "t", "a">>, <<"g", "r", "a", "y">>,
      <<"g", "r", "e", "y">>, <<"o", "r", "a", "n", "g", "e">>,
      <<"p", "i", "n", "k">>, <<"p", "u", "r", "p", "l", "e">>,
      <<"b", "r", "o", "w", "n">>, <<"n", "a", "v", "y">>,
      <<"t", "e", "a", "l">>, <<"o", "l", "i", "v", "e">>,
      <<"m", "a", "r", "o", "o", "n">>, <<"a", "q", "u", "a">>,
      <<"f", "u", "c", "h", "s", "i", "a">>, <<"l", "i", "m", "e">>,
      <<"s", "i", "l", "v", "e", "r">>
    }

\* /^#[0-9A-Fa-f]{n}$/.test(value)
IsHex(str, n) ==
    /\ Len(str) = n + 1
    /\ str[1] = "#"
    /\ \A i \in 2..(n + 1) : str[i] \in HexChars

\* value.match(/^rgba?\((\d+),\s*(\d+),\s*(\d+)(?:,\s*([\d.]+))?\)$/i): the
\* four groups, or null
rgbMatch(str) ==
    LET s == toLowerCase(str)
        open == IF Len(s) >= 4 /\ s[4] = "a" THEN 5 ELSE 4
        r == SpanEnd(s, open + 1, DigitChars)
        g1 == SpanEnd(s, r + 1, {NL, SP})
        g == SpanEnd(s, g1, DigitChars)
        b1 == SpanEnd(s, g + 1, {NL, SP})
        b == SpanEnd(s, b1, DigitChars)
        alpha == b <= Len(s) /\ s[b] = ","
        a1 == SpanEnd(s, b + 1, {NL, SP})
        a == SpanEnd(s, a1, DigitChars \cup {"."})
        close == IF alpha THEN a ELSE b
    IN  IF /\ Len(s) >= open
           /\ SubSeq(s, 1, 3) = <<"r", "g", "b">>
           /\ s[open] = "("
           /\ r > open + 1 /\ r <= Len(s) /\ s[r] = ","
           /\ g > g1 /\ g <= Len(s) /\ s[g] = ","
           /\ b > b1
           /\ (alpha => a > a1)
           /\ close = Len(s) /\ s[close] = ")"
        THEN Some([r |-> SubSeq(s, open + 1, r - 1),
                   g |-> SubSeq(s, g1, g - 1),
                   b |-> SubSeq(s, b1, b - 1),
                   a |-> IF alpha THEN SubSeq(s, a1, a - 1) ELSE <<>>])
        ELSE Null

\* value.match(/^hsla?\((\d+),\s*([\d.]+)%,\s*([\d.]+)%(?:,\s*([\d.]+))?\)$/i)
hslMatch(str) ==
    LET s == toLowerCase(str)
        open == IF Len(s) >= 4 /\ s[4] = "a" THEN 5 ELSE 4
        h == SpanEnd(s, open + 1, DigitChars)
        s1 == SpanEnd(s, h + 1, {NL, SP})
        sat == SpanEnd(s, s1, DigitChars \cup {"."})
        l1 == SpanEnd(s, sat + 2, {NL, SP})
        l == SpanEnd(s, l1, DigitChars \cup {"."})
        alpha == l + 1 <= Len(s) /\ s[l + 1] = ","
        a1 == SpanEnd(s, l + 2, {NL, SP})
        a == SpanEnd(s, a1, DigitChars \cup {"."})
        close == IF alpha THEN a ELSE l + 1
    IN  IF /\ Len(s) >= open
           /\ SubSeq(s, 1, 3) = <<"h", "s", "l">>
           /\ s[open] = "("
           /\ h > open + 1 /\ h <= Len(s) /\ s[h] = ","
           /\ sat > s1 /\ sat + 1 <= Len(s) /\ s[sat] = "%" /\ s[sat + 1] = ","
           /\ l > l1 /\ l <= Len(s) /\ s[l] = "%"
           /\ (alpha => a > a1)
           /\ close = Len(s) /\ s[close] = ")"
        THEN Some([h |-> SubSeq(s, open + 1, h - 1),
                   s |-> SubSeq(s, s1, sat - 1),
                   l |-> SubSeq(s, l1, l - 1),
                   a |-> IF alpha THEN SubSeq(s, a1, a - 1) ELSE <<>>])
        ELSE Null

\* Math.min(high, Math.max(0, num))
Clamp(num, high) == MathMin(Finite(high), MathMax(Finite(0), num))

\* rgbMatch[4] ? Math.min(1, Math.max(0, parseFloat(rgbMatch[4]))) : 1
AlphaOf(group) == IF group = <<>> THEN Finite(10) ELSE Clamp(parseFloat(group), 10)

\* parseColor (126-180)
parseColor(value) ==
    IF IsHex(value, 3)
    THEN [isValid |-> TRUE,
          normalized |-> <<"#", value[2], value[2], value[3], value[3],
                           value[4], value[4]>>]
    ELSE IF IsHex(value, 6) \/ IsHex(value, 8)
    THEN [isValid |-> TRUE, normalized |-> toLowerCase(value)]
    ELSE IF ~IsNull(rgbMatch(value))
    THEN LET m == Get(rgbMatch(value))
             r == Clamp(Finite(IntOf(m.r) * 10), 2550)
             g == Clamp(Finite(IntOf(m.g) * 10), 2550)
             b == Clamp(Finite(IntOf(m.b) * 10), 2550)
             a == AlphaOf(m.a)
             rgb == NumberToString(r) \o <<",", SP>> \o NumberToString(g)
                    \o <<",", SP>> \o NumberToString(b)
         IN  [isValid |-> TRUE,
              normalized |->
                IF StrictEquals(a, Finite(10))
                THEN <<"r", "g", "b", "(">> \o rgb \o <<")">>
                ELSE <<"r", "g", "b", "a", "(">> \o rgb \o <<",", SP>> \o NumberToString(a)
                     \o <<")">>]
    ELSE IF ~IsNull(hslMatch(value))
    THEN LET m == Get(hslMatch(value))
             h == Finite((IntOf(m.h) % 360) * 10)
             s == Clamp(parseFloat(m.s), 1000)
             l == Clamp(parseFloat(m.l), 1000)
             a == AlphaOf(m.a)
             hsl == NumberToString(h) \o <<",", SP>> \o NumberToString(s)
                    \o <<"%", ",", SP>> \o NumberToString(l) \o <<"%">>
         IN  [isValid |-> TRUE,
              normalized |->
                IF StrictEquals(a, Finite(10))
                THEN <<"h", "s", "l", "(">> \o hsl \o <<")">>
                ELSE <<"h", "s", "l", "a", "(">> \o hsl \o <<",", SP>> \o NumberToString(a)
                     \o <<")">>]
    ELSE IF toLowerCase(value) \in namedColors
    THEN [isValid |-> TRUE, normalized |-> toLowerCase(value)]
    ELSE [isValid |-> FALSE, normalized |-> value]

\* validateColor (278-299)
validateColor(value) ==
    IF value.type = "number"
    THEN Invalid(value, "Color values must be strings")
    ELSE IF parseColor(trim(value.text)).isValid
    THEN Valid(Str(parseColor(trim(value.text)).normalized))
    ELSE Invalid(value, "Invalid color format. Use hex (#fff), rgb(), or named colors")

\* the warning of validateOpacity: the template literal of line 413
ClampedWarning(num, clamped) ==
    <<"Opacity clamped from ">> \o NumberToString(num) \o <<" to ">>
    \o NumberToString(clamped)

\* validateOpacity (391-419)
validateOpacity(value) ==
    LET num == IF value.type = "number" THEN value.num ELSE parseFloat(value.text)
        clamped == Clamp(num, 10)
    IN  IF value.type = "string" /\ isNaN(num)
        THEN Invalid(value, "Opacity must be a number between 0 and 1")
        ELSE IF ~StrictEquals(clamped, num)
        THEN ValidWithWarning(Num(clamped), ClampedWarning(num, clamped))
        ELSE Valid(Num(clamped))

\* validateGenericText (596-601)
validateGenericText(value) ==
    IF value.type = "number"
    THEN Valid(Str(NumberToString(value.num)))
    ELSE Valid(Str(trim(value.text)))

\* the own keys of STYLE_VALIDATORS (608-649), each with its validator
STYLE_VALIDATORS ==
    [width |-> "validateDimension", height |-> "validateDimension",
     minWidth |-> "validateDimension", maxWidth |-> "validateDimension",
     minHeight |-> "validateDimension", maxHeight |-> "validateDimension",
     margin |-> "validateSpacing", marginTop |-> "validateSpacing",
     marginRight |-> "validateSpacing", marginBottom |-> "validateSpacing",
     marginLeft |-> "validateSpacing", padding |-> "validateSpacing",
     paddingTop |-> "validateSpacing", paddingRight |-> "validateSpacing",
     paddingBottom |-> "validateSpacing", paddingLeft |-> "validateSpacing",
     gap |-> "validateSpacing",
     color |-> "validateColor", backgroundColor |-> "validateColor",
     borderColor |-> "validateColor",
     fontSize |-> "validateFontSize", fontWeight |-> "validateFontWeight",
     lineHeight |-> "validateLineHeight", letterSpacing |-> "validateSpacing",
     fontFamily |-> "validateGenericText",
     borderRadius |-> "validateBorderRadius", borderWidth |-> "validateBorderWidth",
     opacity |-> "validateOpacity", boxShadow |-> "validateBoxShadow"]

\* STYLE_VALIDATORS is an object literal: a key it does not own is looked up
\* on Object.prototype. What the member found there does when it is called
\* as validator(value), without a receiver:
\*   toString       returns the string "[object Undefined]"
\*   constructor    returns the wrapper object of value
\*   hasOwnProperty throws a TypeError (no receiver to convert to an object)
\*   __proto__      is Object.prototype itself, an object: calling it throws
\*                  a TypeError
ObjectPrototype ==
    ("toString" :> "other") @@ ("constructor" :> "other")
    @@ ("hasOwnProperty" :> "throws") @@ ("__proto__" :> "throws")

\* what a call gave: a ValidationResult, a value that is none, or an exception
Result(result) == [kind |-> "result", result |-> result]

\* the record kept of a call
CallOf(name, given) ==
    [call |-> name, kind |-> given.kind, result |-> given.result]

NotAResult == [kind |-> "other", result |-> Valid(Str(<<>>))]

Thrown == [kind |-> "throws", result |-> Valid(Str(<<>>))]

\* validator(value), for the validators modelled here
CallValidator(validator, value) ==
    CASE validator = "validateColor" -> validateColor(value)
      [] validator = "validateOpacity" -> validateOpacity(value)
      [] validator = "validateGenericText" -> validateGenericText(value)

\* validateStyleValue (654-664)
validateStyleValue(property, value) ==
    IF property \in DOMAIN STYLE_VALIDATORS
    THEN Result(CallValidator(STYLE_VALIDATORS[property], value))
    ELSE IF property \in DOMAIN ObjectPrototype
    THEN (IF ObjectPrototype[property] = "throws" THEN Thrown ELSE NotAResult)
    ELSE Result(Valid(value))

\* the hex digits of the colours explored
HexDigits == {"0", "9", "a", "f", "A", "F"}

\* the 3-digit hex colours explored
Hex3Colors == { <<"#", r, g, b>> : r \in HexDigits, g \in HexDigits, b \in HexDigits }

\* the other colour texts explored
OtherColors ==
    {
      <<"#", "a", "1", "B", "2", "c", "3">>,
      <<"#", "A", "1", "B", "2", "C", "3", "f", "f">>,
      <<" ", "#", "f", "f", "f", " ">>, <<"R", "e", "d">>,
      <<"r", "e", "d", "d", "i", "s", "h">>, <<"#", "g", "g", "g">>,
      <<"#", "f", "f", "f", "f">>,
      <<"r", "g", "b", "(", "3", "0", "0", ",", " ", "0", ",", "9", ")">>,
      <<"R", "G", "B", "A", "(", "1", ",", "2", ",", "3", ",", "0", ".", "5", ")">>,
      <<"r", "g", "b", "a", "(", "1", ",", "2", ",", "3", ",", "2", ")">>,
      <<"r", "g", "b", "a", "(", "1", ",", "2", ",", "3", ",", ".", ")">>,
      <<"r", "g", "b", "(", "1", ",", "2", ")">>,
      <<"h", "s", "l", "(", "4", "0", "0", ",", " ", "5", "0", "%", ",", " ", "1", "2", "0", "%", ")">>,
      <<"h", "s", "l", "a", "(", "9", ",", "1", ".", "5", "%", ",", "0", "%", ",", "0", ".", "5", ")">>,
      <<"h", "s", "l", "(", "9", ",", "5", ",", "5", ")">>, <<>>
    }

\* the opacity texts explored
OpacityTexts ==
    {
      <<"0", ".", "5">>, <<"1", ".", "5">>, <<"-", "0", ".", "2">>, <<"x">>,
      <<>>, <<" ", "1", " ">>, <<"2">>, <<"0">>, <<"1">>,
      <<"0", ".", "5", "p", "x">>, <<".", "5">>, <<"-">>, <<"1", ".">>,
      <<"-", "I", "n", "f", "i", "n", "i", "t", "y">>, <<"+", "1", ".", "0">>
    }

\* the opacity numbers explored, in tenths
OpacityTenths == (0 - 12)..12

OpacityNumbers ==
    { Finite(n) : n \in OpacityTenths } \cup {NaN, Infinity, NegativeInfinity}

\* the values handed to the validators
StyleInputs ==
    { Str(t) : t \in Hex3Colors \cup namedColors \cup OtherColors \cup OpacityTexts }
    \cup { Num(n) : n \in OpacityNumbers }

\* the property names explored: keys of the table whose validator is
\* modelled, names the table does not have, and names found on
\* Object.prototype
PropertyNames ==
    {"color", "backgroundColor", "opacity", "fontFamily", "display", "zIndex",
     "toString", "constructor", "hasOwnProperty", "__proto__"}

NoCall == [call |-> "none", kind |-> "result", result |-> Valid(Str(<<>>))]

ValidIdle ==
    /\ validatorInput = [property |-> "color", value |-> Str(<<>>)]
    /\ validatorResult = NoCall

\* the arguments of the call under test
ValidStart ==
    /\ validatorInput \in [property : PropertyNames, value : StyleInputs]
    /\ validatorResult = NoCall

validateStyleValueCall ==
    /\ validatorResult = NoCall
    /\ validatorResult' =
         CallOf("validateStyleValue",
                validateStyleValue(validatorInput.property, validatorInput.value))
    /\ UNCHANGED validatorInput
    /\ UNCHANGED <<histVars, patchVars, chatVars, streamVars, editorVars, persistVars>>

validateColorCall ==
    /\ validatorResult = NoCall
    /\ validatorResult' =
         CallOf("validateColor",
                Result(validateColor(validatorInput.value)))
    /\ UNCHANGED validatorInput
    /\ UNCHANGED <<histVars, patchVars, chatVars, streamVars, editorVars, persistVars>>

validateOpacityCall ==
    /\ validatorResult = NoCall
    /\ validatorResult' =
         CallOf("validateOpacity",
                Result(validateOpacity(validatorInput.value)))
    /\ UNCHANGED validatorInput
    /\ UNCHANGED <<histVars, patchVars, chatVars, streamVars, editorVars, persistVars>>

ValidNext ==
    \/ validateStyleValueCall
    \/ validateColorCall
    \/ validateOpacityCall

-----------------------------------------------------------------------------
(* Specifications *)

HistInit ==
    HistIdle /\ PatchIdle /\ ChatIdle /\ StreamIdle /\ EditorIdle
    /\ PersistIdle /\ ValidIdle

PatchInit ==
    HistIdle /\ PatchInputs /\ ChatIdle /\ StreamIdle /\ EditorIdle
    /\ PersistIdle /\ ValidIdle

ChatInit ==
    HistIdle /\ PatchIdle /\ ChatIdle /\ StreamIdle /\ EditorIdle
    /\ PersistIdle /\ ValidIdle

StreamInit ==
    HistIdle /\ PatchIdle /\ ChatIdle /\ StreamStart /\ EditorIdle
    /\ PersistIdle /\ ValidIdle

SpecHistory == HistInit /\ [][HistNext]_vars

\* the event loop runs the callback of an armed timer once its delay is over
SpecHistoryLive == HistInit /\ [][HistNext]_vars /\ WF_vars(flushBatch)

SpecPatch == PatchInit /\ [][PatchNext]_vars

SpecChat == ChatInit /\ [][ChatNext]_vars

SpecStream == StreamInit /\ [][StreamNext]_vars

EditorInit ==
    HistIdle /\ PatchIdle /\ ChatIdle /\ StreamIdle /\ EditorIdle
    /\ PersistIdle /\ ValidIdle

SpecEditor == EditorInit /\ [][EditorNext]_vars

PersistInit ==
    HistIdle /\ PatchIdle /\ ChatIdle /\ StreamIdle /\ EditorIdle
    /\ PersistStart /\ ValidIdle

SpecPersist == PersistInit /\ [][PersistNext]_vars

ValidInit ==
    HistIdle /\ PatchIdle /\ ChatIdle /\ StreamIdle /\ EditorIdle
    /\ PersistIdle /\ ValidStart

SpecValid == ValidInit /\ [][ValidNext]_vars

-----------------------------------------------------------------------------
(* Properties of the style history *)

\* every batch held by the history
Batches(st) ==
    { st.past[i] : i \in 1..Len(st.past) }
      \cup { st.present[i] : i \in 1..Len(st.present) }
      \cup { st.future[i] : i \in 1..Len(st.future) }

HasPresent(st) == IF IsNull(st.present) THEN 0 ELSE 1

\* two entries of the batch name the same (selector, property)
RepeatsTarget(batch) ==
    \E i, j \in 1..Len(batch) :
        /\ i < j
        /\ batch[i].selector = batch[j].selector
        /\ batch[i].property = batch[j].property

\* two neighbouring entries of the batch name the same (selector, property)
RepeatsTargetInARow(batch) ==
    \E i \in 1..(Len(batch) - 1) :
        /\ batch[i].selector = batch[i + 1].selector
        /\ batch[i].property = batch[i + 1].property

\* the batch was accumulated by pushChange (the lists handed to batchChanges
\* carry id 0)
FromPushChange(batch) ==
    /\ Len(batch) > 0
    /\ \A i \in 1..Len(batch) : batch[i].id >= 1

\* a step that commits the pending list
PendingCommitted == Len(pendingChangesRef) > 0 /\ (flushBatch \/ undo)

\* the batch that such a step committed, read from the state after the step
CommittedBatch ==
    IF flushBatch \/ IsNull(state.present)
    THEN Get(state'.present)
    ELSE Head(state'.future)

\* C3: every commit of a new batch (timer flush, the flush inside undo,
\* batchChanges) clears the redo stack: after a timer flush or batchChanges
\* future is empty, and after an undo that flushed, future holds nothing of
\* what it held before (at most the batch just committed and undone).
C3_FutureClearedOnCommit ==
    [][ /\ (flushBatch /\ Len(pendingChangesRef) > 0) => state'.future = <<>>
        /\ batchChanges => state'.future = <<>>
        /\ (undo /\ Len(pendingChangesRef) > 0) =>
              state'.future \in { <<>>, <<pendingChangesRef>> } ]_vars

\* a timer flush has committed change 3 after change 2 had been committed and
\* undone: the undone batch is gone from the redo stack
C3_Witness ==
    /\ lastCall.op = "flushBatch"
    /\ state.future = <<>>
    /\ Len(state.past) = 1
    /\ FromPushChange(state.past[1]) /\ state.past[1][1].id = 1
    /\ ~IsNull(state.present)
    /\ FromPushChange(Get(state.present)) /\ Get(state.present)[1].id = 3

\* C4 as stated: past.length + (present != null ? 1 : 0) <= maxSize
C4_Claim == Len(state.past) + HasPresent(state) <= maxSize

\* C4 as amended: past alone is bounded by maxSize, so that past together
\* with present holds at most maxSize + 1 batches
C4_PastBounded ==
    /\ Len(state.past) <= maxSize
    /\ Len(state.past) + HasPresent(state) <= maxSize + 1

\* past is full and present holds one more batch, right after a commit
C4_Witness ==
    /\ Len(state.past) = maxSize
    /\ ~IsNull(state.present)
    /\ lastCall.op \in {"flushBatch", "batchChanges"}

\* C5 as stated: undo() commits the pending changes and disarms the timer;
\* then, if past is non-empty, the tail of past becomes present, the old
\* present goes to the front of future and the call returns the batch that was
\* present before the pop; otherwise it returns null.
C5_Claim ==
    [][ undo =>
          LET mid == IF Len(pendingChangesRef) > 0
                     THEN [past    |-> IF IsNull(state.present) THEN state.past
                                       ELSE Append(state.past, Get(state.present)),
                           present |-> Some(pendingChangesRef),
                           future  |-> <<>>]
                     ELSE state
          IN /\ pendingChangesRef' = <<>>
             /\ timers' = 0
             /\ IF Len(mid.past) > 0
                THEN /\ state'.present = Some(mid.past[Len(mid.past)])
                     /\ state'.past = DropLast(mid.past)
                     /\ state'.future = mid.present \o mid.future
                     /\ lastCall'.returned = mid.present
                ELSE /\ state' = mid
                     /\ lastCall'.returned = Null ]_vars

\* C6 as stated: redo(), when future is non-empty, moves the front of future
\* into present, appends the old present to past and returns the batch that
\* became present; when future is empty it returns null.
C6_Claim ==
    [][ redo =>
          IF Len(state.future) > 0
          THEN /\ state'.present = Some(Head(state.future))
               /\ state'.future = Tail(state.future)
               /\ state'.past = state.past \o state.present
               /\ lastCall'.returned = state'.present
          ELSE /\ state' = state
               /\ lastCall'.returned = Null ]_vars

\* C7 as stated: no committed batch holds two entries with the same
\* (selector, property)
C7_Claim == \A batch \in Batches(state) : ~RepeatsTarget(batch)

\* C7 as amended: in the pending list, and in every committed batch that was
\* accumulated by pushChange, no two neighbouring entries have the same
\* (selector, property), every entry stands for the calls from its id to its
\* timestamp, and the entries follow each other in call order.
C7_NoRepeatInARow ==
    \A batch \in Batches(state) \cup {pendingChangesRef} :
        FromPushChange(batch) =>
            /\ ~RepeatsTargetInARow(batch)
            /\ \A i \in 1..Len(batch) : batch[i].id <= batch[i].timestamp
            /\ \A i \in 1..(Len(batch) - 1) : batch[i].timestamp < batch[i + 1].id

\* a committed batch holds one entry that stands for two pushChange calls
C7_Witness ==
    \E batch \in Batches(state) :
        /\ FromPushChange(batch)
        /\ \E i \in 1..Len(batch) : batch[i].timestamp = batch[i].id + 1

\* C8: the pushChange calls made in a row for one (selector, property), each
\* before the timer of the one before fires, are committed as one entry of one
\* batch: the batch has one entry per row of calls, and the entry of the last
\* row carries the oldValue of the row's first call and the newValue and
\* timestamp of its last call.
C8_RowCoalesced ==
    [][ PendingCommitted =>
          LET batch == CommittedBatch
              entry == batch[Len(batch)]
          IN /\ Len(batch) = run.index
             /\ entry.selector = Get(run.first).selector
             /\ entry.property = Get(run.first).property
             /\ entry.id = Get(run.first).id
             /\ entry.oldValue = Get(run.first).oldValue
             /\ entry.newValue = Get(run.last).newValue
             /\ entry.timestamp = Get(run.last).timestamp ]_vars

\* the timer has committed a batch of one entry that stands for three calls
C8_Witness ==
    /\ lastCall.op = "flushBatch"
    /\ ~IsNull(state.present)
    /\ Len(Get(state.present)) = 1
    /\ Get(state.present)[1].id >= 1
    /\ Get(state.present)[1].timestamp = Get(state.present)[1].id + 2


-----------------------------------------------------------------------------
(* Generation sessions: properties *)

\* the sessions that are Sending or Streaming: started, not aborted, not
\* terminated
Active == { s \in Sessions : InFlight(s) /\ ~aborted[s] }

\* C1: after any interleaving of sendMessage calls, cancel calls and stream
\* events, at most one generation session is Sending/Streaming (started, not
\* aborted, not terminated) at a time, because starting a new session aborts
\* every session that is still in flight.
C1_Claim == Cardinality(Active) <= 1

\* C2: for a session that is cancelled (cancel() or a newer sendMessage was
\* called while it was in flight) neither onComplete nor onError is ever
\* invoked, no content or thinking update is delivered after that call, and
\* the session ends as aborted (it returns null), not as completed or failed.
C2_Claim ==
    \A s \in Sessions :
        cancelAsked[s] =>
            /\ calls[s].complete = 0
            /\ calls[s].error = 0
            /\ calls[s].late = 0
            /\ outcome[s] \in {"pending", "null"}

-----------------------------------------------------------------------------
(* Patch engine: properties *)

\* the document with the first occurrence of a text replaced by another
\* text, every other character kept
FirstOccurrenceReplaced(doc, old, new) ==
    LET pos == Min(Occurrences(doc, old))
    IN SubSeq(doc, 1, pos - 1) \o new \o SubSeq(doc, pos + Len(old), Len(doc))

\* C9: for a block whose trimmed search text is an exact substring of the
\* document, applySearchReplace replaces exactly the first occurrence of that
\* text with the trimmed replace text and leaves every other character of the
\* document identical, for every replace text, including ones with a $.
C9_Claim ==
    \A srch \in Searches, rep \in Replaces :
        ( /\ ~IsNull(patchResult)
          /\ aiResponse \in {Block(srch, rep), Wrapped(Block(srch, rep))}
          /\ includes(originalHtml, trim(srch)) )
        => Get(patchResult)
             = FirstOccurrenceReplaced(originalHtml, trim(srch), trim(rep))

\* the SEARCH/REPLACE blocks of a response, in order
RECURSIVE patchBlocks(_, _)
patchBlocks(response, lastIndex) ==
    LET match == patchRegexExec(response, lastIndex)
    IN IF ~match.found THEN <<>>
       ELSE <<match>> \o patchBlocks(response, match.lastIndex)

\* the response has no block, or none of its blocks matched the document
NoneMatched(original, response) ==
    \A n \in 1..Len(patchBlocks(response, 1)) :
        ~includes(original, trim(patchBlocks(response, 1)[n].searchBlock))

\* C10: when the AI output has no SEARCH/REPLACE block, or none of its blocks
\* matched, applySearchReplace returns the raw output verbatim if the raw
\* output itself starts with a doctype or <html, and the existing document
\* untouched otherwise; a response made only of non-matching blocks wrapped
\* in prose leaves the document identical.  (A raw output that starts with a
\* lowercase doctype is left out: the statement holds or fails without it.)
C10_Claim ==
    ( ~IsNull(patchResult) /\ NoneMatched(originalHtml, aiResponse) ) =>
        /\ ( startsWith(aiResponse, DOCTYPE) \/ startsWith(aiResponse, HTML_OPEN) )
             => Get(patchResult) = aiResponse
        /\ ~( \/ startsWith(aiResponse, DOCTYPE)
              \/ startsWith(aiResponse, doctype)
              \/ startsWith(aiResponse, HTML_OPEN) )
             => Get(patchResult) = originalHtml


\* C11: applySearchReplace never raises, for any document and AI output: a
\* block whose search text is not in the document is skipped (the result is
\* that of the blocks that matched), and applying an already applied patch
\* again to the patched document either changes nothing (the search text is
\* no longer there) or applies the patch again.
C11_Claim ==
    /\ ~IsNull(patchResult) => Len(Get(patchResult)) >= 0
    /\ ( /\ ~IsNull(patchResult)
         /\ aiResponse = Block(<<"b">>, <<"c">>) \o <<NL>>
                           \o Block(<<"b", "a">>, <<"c">>)
         /\ includes(originalHtml, <<"b">>)
         /\ ~includes(FirstOccurrenceReplaced(originalHtml, <<"b">>, <<"c">>),
                      <<"b", "a">>) )
       => Get(patchResult)
            = FirstOccurrenceReplaced(originalHtml, <<"b">>, <<"c">>)
    /\ ( ~IsNull(reapplied) /\ ~NoneMatched(originalHtml, aiResponse) )
       => IF NoneMatched(Get(patchResult), aiResponse)
          THEN Get(reapplied) = Get(patchResult)
          ELSE Get(reapplied) = applyPatches(Get(patchResult), aiResponse, 1)


-----------------------------------------------------------------------------
(* Generation sessions: failures *)

\* C14: a network failure, a missing body or a non-2xx response during a
\* session is surfaced exactly once for that session: onError is called once
\* and the promise of sendMessage rejects, and onComplete is never called
\* for it; a session that has not failed has no onError call.
C14_FailureSurfacedOnce ==
    \A s \in Sessions :
        /\ pc[s] = "failed" =>
              /\ calls[s].error = 1
              /\ calls[s].complete = 0
              /\ outcome[s] = "rejected"
        /\ pc[s] # "failed" => calls[s].error = 0 /\ outcome[s] # "rejected"

\* a session failed in the middle of its stream, after a chunk was read,
\* and another one failed on a response that was not ok
C14_Witness ==
    \E s, t \in Sessions :
        /\ s # t
        /\ pc[s] = "failed" /\ reads[s] = 1 /\ calls[s].error = 1
        /\ pc[t] = "failed" /\ reads[t] = 0 /\ calls[t].error = 1


-----------------------------------------------------------------------------
(* Stream decoders: properties *)

\* the lines of a body before its first sentinel
RECURSIVE BeforeSentinel(_)
BeforeSentinel(ls) ==
    IF Len(ls) = 0 \/ ls[1].kind = "done" THEN <<>>
    ELSE <<ls[1]>> \o BeforeSentinel(Tail(ls))

\* the position of the first sentinel of a body, 0 when it has none
SentinelAt(ls) == IF Len(BeforeSentinel(ls)) = Len(ls) THEN 0
                  ELSE Len(BeforeSentinel(ls)) + 1

\* the events a list of provider lines stands for: per delta, its content
\* when there is one, then its reasoning when there is one
RECURSIVE ProviderEvents(_)
ProviderEvents(ls) ==
    IF Len(ls) = 0 THEN <<>>
    ELSE (IF ls[1].kind = "delta" /\ ls[1].content # <<>>
          THEN <<Event("content", ls[1].content)>> ELSE <<>>)
      \o (IF ls[1].kind = "delta" /\ ls[1].reasoning # <<>>
          THEN <<Event("thinking", ls[1].reasoning)>> ELSE <<>>)
      \o ProviderEvents(Tail(ls))

\* the number of lines of a body whose line end lies within its first pos
\* bytes
RECURSIVE CompleteLines(_, _)
CompleteLines(ls, pos) ==
    IF Len(ls) = 0 \/ pos < Len(lineText(ls[1])) + 1 THEN 0
    ELSE 1 + CompleteLines(Tail(ls), pos - Len(lineText(ls[1])) - 2)

\* the callbacks a list of response lines stands for: per content or
\* thinking event, one call with the text of that type accumulated so far
RECURSIVE Accumulated(_, _)
Accumulated(evs, full) ==
    IF Len(evs) = 0 THEN <<>>
    ELSE IF evs[1].type \notin {"content", "thinking"}
         THEN Accumulated(Tail(evs), full)
    ELSE <<Event(evs[1].type, full[evs[1].type] \o evs[1].data)>>
           \o Accumulated(Tail(evs),
                          [full EXCEPT ![evs[1].type] = @ \o evs[1].data])

\* the content deltas of a list of provider lines, concatenated
RECURSIVE ContentOf(_)
ContentOf(ls) ==
    IF Len(ls) = 0 THEN <<>>
    ELSE (IF ls[1].kind = "delta" THEN ls[1].content ELSE <<>>)
           \o ContentOf(Tail(ls))

IsWellFormedLine(l) == l.kind # "malformed"
IsWellFormedEvent(ev) == ev.type # "malformed"

\* C15: once the route's decoder has read the data: [DONE] sentinel it has
\* closed the output stream, and what it has enqueued is what the lines
\* before the sentinel stand for: nothing is emitted for the lines that
\* follow, in the same chunk or in later ones.
C15_SentinelTerminates ==
    ( SentinelAt(upLines) > 0
        /\ CompleteLines(upLines, upPos) >= SentinelAt(upLines) )
    => /\ srvState = "closed"
       /\ enqueued = ProviderEvents(BeforeSentinel(upLines))

\* the sentinel was read in one chunk with a whole content delta after it,
\* after a line that gave events
C15_Witness ==
    /\ Len(upLines) = 3
    /\ upLines[1] = Delta(<<"a">>, <<>>)
    /\ upLines[2] = Sentinel
    /\ upLines[3] = Delta(<<"a">>, <<>>)
    /\ upPos = Len(Upstream)
    /\ srvState = "closed"
    /\ enqueued = <<Event("content", <<"a">>)>>
    /\ cliState = "done"

\* C16: what a decoder has emitted depends on the bytes it has read only,
\* not on how they were split into reads: after any reads, the route (split
\* on "\n") and the client (split on "\n\n") have emitted the events, and
\* hold the buffer, that one read of all those bytes gives.
C16_ChunkingIndependent ==
    /\ upLines # <<>> =>
         \E one \in { serverChunk(<<>>, SubSeq(Upstream, 1, upPos)) } :
            /\ enqueued = one.done.events
            /\ srvBuffer = one.buffer
            /\ one.done.closed => srvState = "closed"
    /\ \E one \in { clientChunk(<<>>, SubSeq(Wire, 1, cliPos), NoText) } :
            /\ cliEvents = one.done.events
            /\ cliBuffer = one.buffer
            /\ cliFull = one.done.full

\* the route has enqueued events and then read a chunk that ends inside a
\* data line
C16_Witness ==
    /\ srvState = "readable"
    /\ enqueued # <<>>
    /\ Len(srvBuffer) > 2
    /\ startsWithData(srvBuffer)
    /\ upPos < Len(Upstream)

\* C17: at any moment the route has enqueued, in arrival order, for each
\* complete line before the sentinel that parses, one content event when
\* the delta has content, followed by one thinking event when it has
\* reasoning; and the text a session has accumulated when it is done is the
\* content deltas concatenated in that order, one callback per event.
C17_EventsInArrivalOrder ==
    /\ upLines # <<>> =>
         enqueued = ProviderEvents(BeforeSentinel(
                        SubSeq(upLines, 1, CompleteLines(upLines, upPos))))
    /\ (cliState = "done" /\ upLines # <<>>) =>
         /\ cliFull.content = ContentOf(BeforeSentinel(upLines))
         /\ cliEvents = Accumulated(enqueued, NoText)

\* a delta with content and reasoning, then a delta with content: three
\* events, and the session has the two contents in that order
C17_Witness ==
    /\ upLines = <<Delta(<<"b", NL, NL, "c">>, <<"a">>), Delta(<<"a">>, <<>>)>>
    /\ enqueued = <<Event("content", <<"b", NL, NL, "c">>),
                    Event("thinking", <<"a">>), Event("content", <<"a">>)>>
    /\ cliState = "done"
    /\ cliFull.content = <<"b", NL, NL, "c", "a">>
    /\ Len(cliEvents) = 3

\* C18: a data line whose payload does not parse is discarded and does not
\* end the stream: when the route has closed its stream it has enqueued what
\* the well-formed lines before the sentinel stand for, its stream is
\* errored only by a failed read, and the client, when done, has made the
\* callbacks of the well-formed lines of the response, before and after the
\* malformed ones.
C18_MalformedDiscarded ==
    /\ srvState = "errored" => readFailed
    /\ (srvState = "closed" /\ upLines # <<>>) =>
         enqueued = ProviderEvents(BeforeSentinel(
                        SelectSeq(upLines, IsWellFormedLine)))
    /\ cliState = "failed" => srvState = "errored"
    /\ cliState = "done" =>
         cliEvents = Accumulated(SelectSeq(enqueued, IsWellFormedEvent), NoText)

\* a malformed line between two content deltas: both deltas were enqueued
\* and reached the session
C18_Witness ==
    /\ upLines = <<Delta(<<"a">>, <<>>), Malformed, Delta(<<"a">>, <<>>)>>
    /\ srvState = "closed"
    /\ enqueued = <<Event("content", <<"a">>), Event("content", <<"a">>)>>
    /\ cliState = "done"
    /\ cliFull.content = <<"a", "a">>

\* C19: when a read of the provider's stream fails, the route puts its
\* output stream into the error state and stops: nothing is enqueued after
\* the error and the stream stays errored; the client's read fails, and no
\* callback is made after that.
C19_ReadErrorStops ==
    /\ [](readFailed => srvState = "errored")
    /\ [][readFailed => (enqueued' = enqueued /\ upPos' = upPos)]_vars
    /\ [][cliState = "failed" => (cliEvents' = cliEvents /\ cliState' = "failed")]_vars

\* the read failed after an event was enqueued, with a content delta not
\* yet read, and the client's read has failed
C19_Witness ==
    /\ readFailed
    /\ srvState = "errored"
    /\ enqueued # <<>>
    /\ CompleteLines(upLines, upPos) < Len(upLines)
    /\ upLines[Len(upLines)] = Delta(<<"a">>, <<>>)
    /\ cliState = "failed"


-----------------------------------------------------------------------------
(* The editor: properties *)

\* a step of a handler of the user that edits the document: the hook and the
\* template effect stand still
UserStep == chatVars' = chatVars /\ templateFetch' = templateFetch

\* C12: when a call completes, onComplete merges the answer through
\* applySearchReplace exactly when the request was sent as a follow-up
\* (isFollowUp true, with the current document), and takes the extracted
\* document exactly when it was sent as a first request.
C12_Claim ==
    [][\A s \in Sessions :
         (pc[s] = "read" /\ pc'[s] = "completed")
           => (closure[s].hasGeneratedOnce = request[s].isFollowUp)]_vars

C20_Claim ==
    [][((\E s \in Sessions : InFlight(s)) /\ UserStep)
         => htmlContent' = htmlContent]_vars

-----------------------------------------------------------------------------
(* Generation sessions: what a call resolves to *)

\* call s completes in this step: extractHtml(fullContent) is returned
CompletesNow(s) == pc[s] = "read" /\ pc'[s] = "completed"

\* call s, aborted, returns in this step
CancelledNow(s) == pc[s] # "cancelled" /\ pc'[s] = "cancelled"

\* C21: a call that completes resolves to the updated document; a call that
\* is cancelled resolves to null, stores no error, calls no onError, does
\* not reject, and leaves isGenerating false.
C21_Claim ==
    [][\A s \in Sessions :
         /\ CompletesNow(s) =>
              /\ outcome'[s] = "html"
              /\ extractHtml(fullContent[s]) = htmlContent'
         /\ CancelledNow(s) =>
              /\ outcome'[s] = "null"
              /\ error' = error
              /\ calls'[s].error = 0
              /\ ~isGenerating']_vars


\* C30: while the newest call of sendMessage is in flight and not aborted,
\* whatever the cleanup of the calls it superseded has done, isGenerating is
\* true and abortControllerRef holds the controller of that call.
C30_Claim ==
    \A s \in Sessions :
        (s = NextSession - 1 /\ InFlight(s) /\ ~aborted[s])
          => (isGenerating /\ abortControllerRef = s)

-----------------------------------------------------------------------------
(* Style history: redo and undo with nothing to do *)

\* changes pushed by pushChange are the latest edit: since the last
\* pushChange there has been no undo (and no commit, batchChanges or clear)
FreshEdit == run.index > 0

\* C22: redo() called after a pushChange, with no undo since that
\* pushChange, returns null.
C22_Claim ==
    (FreshEdit /\ lastCall.op = "redo") => IsNull(lastCall.returned)


\* this step is a call of the operation named: the render, the one step
\* that empties the queue of updates, is no call
Called(op) == lastCall'.op = op /\ ~(fiberLanes /\ ~fiberLanes')

\* C23: undo() called with past empty, present null and nothing pending
\* returns null and leaves past, present and future as they are; redo()
\* called with future empty returns null and leaves the state as it is.
C23_NothingToUndoOrRedo ==
    [][/\ (/\ Called("undo")
           /\ Len(state.past) = 0 /\ IsNull(state.present)
           /\ Len(pendingChangesRef) = 0)
          => (state' = state /\ IsNull(lastCall'.returned))
       /\ (Called("redo") /\ Len(state.future) = 0)
          => (state' = state /\ IsNull(lastCall'.returned))]_vars

\* redo() was called with an empty future and a present batch, after the
\* history had been used, and the state is the one before the call
C23_Witness ==
    /\ lastCall.op = "redo"
    /\ Len(state.future) = 0
    /\ ~IsNull(state.present)
    /\ Len(state.past) > 0
    /\ IsNull(lastCall.returned)
    /\ ~fiberLanes

-----------------------------------------------------------------------------
(* Document extraction: properties *)

\* the order of preference: the content of the html fences when there is
\* one, else the span from a doctype declaration to the closing tag, else
\* the span from the html tag to the closing tag, else the trimmed text
PreferredDocument(text) ==
    IF Len(htmlBlocks(text, 1)) > 0
    THEN trim(joinLines(htmlBlocks(text, 1)))
    ELSE IF ~IsNull(documentMatch(text, {DOCTYPE, doctype}))
    THEN trim(Get(documentMatch(text, {DOCTYPE, doctype})))
    ELSE IF ~IsNull(documentMatch(text, {HTML_OPEN}))
    THEN trim(Get(documentMatch(text, {HTML_OPEN})))
    ELSE trim(text)

\* the text is one complete document and nothing else
IsDocument(text) ==
    /\ Len(text) > 1
    /\ text[1] \in {DOCTYPE, HTML_OPEN}
    /\ text[Len(text)] = HTML_CLOSE
    /\ \A i \in 1..(Len(text) - 1) : text[i] \notin {HTML_CLOSE, FENCE}

\* C24: extractHtml returns the content of the html fences when there is
\* one, else the doctype span, else the html span, else the trimmed text;
\* a text that is exactly one complete document is returned as it is.
C24_Claim ==
    ~IsNull(extracted) =>
        /\ Get(extracted) = PreferredDocument(aiResponse)
        /\ IsDocument(aiResponse) => Get(extracted) = aiResponse

-----------------------------------------------------------------------------
(* Style persistence: properties *)

\* the map passed to the last saveStyles call
LastSaved == saveTimers[Len(saveTimers)].styles

\* the timer id fires in this step
FiresNow(id) == id \in ArmedTimers /\ saveTimers'[id].state = "fired"

\* C25: in a burst of saveStyles calls, each arriving before the timer of
\* the previous one fires, the earlier scheduled writes are cancelled (at
\* most one timer is armed, the one of the last call), and when the timer
\* fires exactly one write is made, of the map passed to the last call.
C25_BurstWritesOnce ==
    [][/\ ArmedTimers' \subseteq {Len(saveTimers')}
       /\ \A id \in 1..Len(saveTimers) :
            FiresNow(id) =>
              /\ id = Len(saveTimers)
              /\ Len(setItemCalls') = Len(setItemCalls) + 1
              /\ setItemCalls'[Len(setItemCalls')].value = JSONstringify(LastSaved)
              /\ ArmedTimers' = {}
       /\ (\A id \in 1..Len(saveTimers) : ~FiresNow(id)) =>
            setItemCalls' = setItemCalls]_vars

\* a burst of two calls with different maps has been written: the timer of
\* the first call was cancelled, the one of the second has fired
C25_Witness ==
    /\ Len(saveTimers) = 2
    /\ saveTimers[1].state = "cleared"
    /\ saveTimers[2].state = "fired"
    /\ saveTimers[1].styles # saveTimers[2].styles
    /\ Len(setItemCalls) = 1
    /\ setItemCalls[1].ok
    /\ localStorage = Some(JSONstringify(saveTimers[2].styles))

\* C26 (as stated): a failure of the read at startup, of a debounced write or
\* of the removal in clearStyles never leaves the operation, and the map in
\* memory is the one the operation produces when nothing fails.
C26_Claim ==
    [][/\ ~escaped'
       /\ (enabled /\ loadEffect("throws")) => persistedStyles' = LoadedStyles
       /\ \A id \in 1..Len(saveTimers) :
            saveTimerFires(id, "throws") => persistedStyles' = persistedStyles
       /\ clearStyles("throws") => persistedStyles' = EmptyStyles]_vars

\* C26 (corrected): none of the three failures leaves the operation; after a
\* failed write or a failed removal the map in memory is the one the
\* operation produces when nothing fails, and after a failed read (the call
\* of getItem throws, or the stored text does not parse) the map is left as
\* it was, empty.
C26_FailuresAreSwallowed ==
    [][/\ ~escaped'
       /\ (hookState = "created" /\ lastOperation'.failed) =>
            persistedStyles' = EmptyStyles
       /\ \A id \in 1..Len(saveTimers) :
            saveTimerFires(id, "throws") => persistedStyles' = persistedStyles
       /\ clearStyles("throws") => persistedStyles' = EmptyStyles]_vars

\* the three failures have happened in one run: the stored text did not
\* parse, a write failed and the removal failed, so the text is still there
C26_Witness ==
    /\ enabled
    /\ hookState = "mounted"
    /\ localStorage = Some(MALFORMED)
    /\ \E i \in 1..Len(setItemCalls) : ~setItemCalls[i].ok
    /\ lastOperation = [op |-> "clearStyles", failed |-> TRUE]
    /\ persistedStyles = EmptyStyles
    /\ ~escaped

-----------------------------------------------------------------------------
(* Style validators: properties *)

\* C27: validateStyleValue never throws and always returns a result; for a
\* property name that is not a key of the validator table the result is
\* valid, carries the input value unchanged, and has no error and no warning.
C27_Claim ==
    validatorResult.call = "validateStyleValue" =>
      /\ validatorResult.kind = "result"
      /\ validatorInput.property \notin DOMAIN STYLE_VALIDATORS =>
           validatorResult.result = Valid(validatorInput.value)

\* the 6-digit lowercase expansion of a 3-digit hex colour
Expansion(hex) ==
    toLowerCase(<<"#", hex[2], hex[2], hex[3], hex[3], hex[4], hex[4]>>)

\* C28: validateColor accepts every 3-digit hex colour and returns its
\* 6-digit lowercase expansion, and it accepts every colour of the
\* allow-list, written as the list writes it.
C28_Claim ==
    (validatorResult.call = "validateColor" /\ validatorInput.value.type = "string") =>
      /\ validatorInput.value.text \in Hex3Colors =>
           /\ validatorResult.result.isValid
           /\ validatorResult.result.sanitizedValue =
                Str(Expansion(validatorInput.value.text))
      /\ validatorInput.value.text \in namedColors =>
           validatorResult.result.isValid

\* the number an opacity value stands for: the number itself, or what
\* parseFloat reads in the text
OpacityNumber(value) ==
    IF value.type = "number" THEN value.num ELSE parseFloat(value.text)

\* n is a number outside [0, 1]
OutsideUnit(n) == LessThan(n, Finite(0)) \/ LessThan(Finite(10), n)

\* min(1, max(0, n)) for a number n
ClampedToUnit(n) ==
    IF LessThan(n, Finite(0)) THEN Finite(0)
    ELSE IF LessThan(Finite(10), n) THEN Finite(10)
    ELSE n

\* C29: for an input that is or parses to a number n, validateOpacity
\* returns a valid result with sanitizedValue min(1, max(0, n)), and a
\* warning naming n and the clamped value exactly when n is outside [0, 1];
\* for any other input it returns an invalid result with an error.
C29_Claim ==
    validatorResult.call = "validateOpacity" =>
      LET n == OpacityNumber(validatorInput.value)
          r == validatorResult.result
      IN  IF ~isNaN(n)
          THEN /\ r.isValid
               /\ r.sanitizedValue = Num(ClampedToUnit(n))
               /\ IsNull(r.error)
               /\ ~IsNull(r.warning) <=> OutsideUnit(n)
               /\ OutsideUnit(n) =>
                    /\ includes(Get(r.warning), NumberToString(n))
                    /\ includes(Get(r.warning), NumberToString(ClampedToUnit(n)))
          ELSE /\ ~r.isValid
               /\ ~IsNull(r.error)

-----------------------------------------------------------------------------
(* Style history: what can be undone *)

\* actions.canUndo, computed from the rendered state
canUndo(st) == Len(st.past) > 0 \/ ~IsNull(st.present)

\* C31: undo() called while canUndo is true, with nothing pending and no
\* update of the component queued, returns a batch and changes the history
\* state; the first batch ever committed can be undone.
C31_Claim ==
    [][(/\ Called("undo")
        /\ canUndo(state)
        /\ Len(pendingChangesRef) = 0
        /\ ~fiberLanes)
       => (~IsNull(lastCall'.returned) /\ state' # state)]_vars

\* past ++ [present] ++ future
Timeline(st) ==
    st.past \o (IF IsNull(st.present) THEN <<>> ELSE <<Get(st.present)>>)
    \o st.future

\* the state undo() works on: the pending changes, if any, are committed
\* first (lines 136-138)
Committed ==
    IF Len(pendingChangesRef) > 0
    THEN flushBatchUpdater(state, pendingChangesRef)
    ELSE state

-----------------------------------------------------------------------------
(* Style history: the debounce timer *)

\* C33: at most one debounce timer is armed, and it is armed whenever
\* changes are pending; when it fires with changes pending, the whole
\* pending list becomes present as one batch, the previous present goes to
\* the end of past, and the pending list is left empty; pending changes are
\* always committed in the end (by the timer, if no other operation does).
C33_TimerCommitsPending ==
    /\ [](timers <= 1 /\ (Len(pendingChangesRef) > 0 => timers = 1))
    /\ [][(flushBatch /\ Len(pendingChangesRef) > 0) =>
            /\ state'.present = Some(pendingChangesRef)
            /\ state'.past =
                 IF IsNull(state.present) THEN state.past
                 ELSE SliceLast(state.past \o state.present, maxSize)
            /\ state'.future = <<>>
            /\ pendingChangesRef' = <<>>]_vars
    /\ (Len(pendingChangesRef) > 0) ~> (Len(pendingChangesRef) = 0)

\* the timer has fired after two pushChange calls on different targets and
\* committed both changes as one batch on top of an earlier present
C33_Witness ==
    /\ lastCall.op = "flushBatch"
    /\ ~IsNull(state.present)
    /\ Len(Get(state.present)) = 2
    /\ Len(state.past) = 1
    /\ pendingChangesRef = <<>>
    /\ timers = 0

-----------------------------------------------------------------------------
(* The editor: the document at completion *)

\* newHtml.includes("<!DOCTYPE") || newHtml.includes("<html")
HasDocumentMarker(text) ==
    includes(text, <<DOCTYPE>>) \/ includes(text, <<HTML_OPEN>>)

\* C34: when a follow-up session completes, the document after completion
\* is the document as it stands at completion time with the patches of the
\* response applied, so a change committed since the request was sent is
\* kept.
C34_Claim ==
    [][\A s \in Sessions :
         (CompletesNow(s) /\ closure[s].hasGeneratedOnce) =>
           LET newHtml == applySearchReplace(htmlContent, fullContent[s])
           IN  htmlContent' =
                 IF HasDocumentMarker(newHtml) THEN newHtml ELSE htmlContent]_vars

-----------------------------------------------------------------------------
(* Style history: batchChanges and the pending list *)

\* the ids of the changes accepted by pushChange and not yet committed
PendingIds == { pendingChangesRef[i].id : i \in 1..Len(pendingChangesRef) }

\* the ids of the changes held in past, present and future
CommittedIds(st) == UNION { { batch[i].id : i \in 1..Len(batch) } : batch \in Batches(st) }

\* C35: batchChanges(changes) makes the given list present at once, whatever
\* the timer, and empties the pending list: no timer is left to fire, none
\* of the changes that were pending is in past, present or future, and a
\* change that is neither pending nor committed never comes back.
C35_PendingDiscarded ==
    [][/\ Called("batchChanges") =>
            /\ \E changes \in BatchInputs : state'.present = Some(changes)
            /\ pendingChangesRef' = <<>>
            /\ timers' = 0
            /\ CommittedIds(state') \cap PendingIds = {}
       /\ \A id \in 1..clock :
            id \notin PendingIds \cup CommittedIds(state) =>
              id \notin PendingIds' \cup CommittedIds(state')]_vars

\* batchChanges was called while the one change ever pushed was pending and
\* its timer armed: the change is nowhere in the history
C35_Witness ==
    /\ lastCall.op = "batchChanges"
    /\ clock = 1
    /\ batchTimerRef = "dead"
    /\ state.past = <<>>
    /\ ~IsNull(state.present)
    /\ 1 \notin CommittedIds(state)
    /\ pendingChangesRef = <<>>
    /\ timers = 0

-----------------------------------------------------------------------------
(* Patch engine: the blocks of one response *)

\* one block applied to a document: the first occurrence of the trimmed
\* search text is replaced, a document without it is left as it is
ApplyBlock(document, search, rep) ==
    IF includes(document, trim(search))
    THEN replace(document, trim(search), trim(rep))
    ELSE document

\* C36: the blocks of one response are applied in order of appearance, each
\* to the document the blocks before it left: the result for a response of
\* two blocks is the second block applied to what the first block gave.
C36_BlocksInSequence ==
    \A parts \in TwoBlockParts :
      (aiResponse = TwoBlocks(parts) /\ ~IsNull(patchResult)) =>
        Get(patchResult) =
          ApplyBlock(ApplyBlock(originalHtml, parts[1], parts[2]),
                     parts[3], parts[4])

\* the first block wrote the text the second block searched, which the
\* original did not hold, and the second block replaced it
C36_Witness ==
    /\ originalHtml = <<DOCTYPE, "a", "b", "a", HTML_CLOSE>>
    /\ aiResponse = TwoBlocks(<< <<"b">>, <<"c">>, <<"c", "a">>, <<"b">> >>)
    /\ ~includes(originalHtml, <<"c", "a">>)
    /\ patchResult = Some(<<DOCTYPE, "a", "b", HTML_CLOSE>>)

\* the first block removed the text the second block searched: the second
\* block changed nothing although the original held its search text
C36_RemovedTextUnmatched ==
    /\ originalHtml = <<"a", "b", "a", "b">>
    /\ aiResponse = TwoBlocks(<< <<"b">>, <<"c">>, <<"b", "a">>, <<"c">> >>)
    /\ includes(originalHtml, <<"b", "a">>)
    /\ patchResult = Some(<<"a", "c", "a", "b">>)

-----------------------------------------------------------------------------
(* Style history: the bound of past *)

\* a step that commits a batch: the timer's flushBatch with changes pending,
\* or batchChanges
CommitsNow ==
    \/ Called("flushBatch") /\ Len(pendingChangesRef) > 0
    \/ Called("batchChanges")

\* C37: past never holds more than maxSize batches; a commit appends the
\* previous present to past, and when past is full it drops exactly the
\* oldest batch and keeps the others in their order.
C37_OldestEvicted ==
    /\ [](Len(state.past) <= maxSize)
    /\ [][(CommitsNow /\ ~IsNull(state.present)) =>
            state'.past = IF Len(state.past) = maxSize
                          THEN Tail(state.past) \o state.present
                          ELSE state.past \o state.present]_vars

\* three pushed batches and one given to batchChanges were committed with
\* maxSize = 2: past holds the second and the third, the first is gone
C37_Witness ==
    /\ lastCall.op = "batchChanges"
    /\ clock = 3
    /\ Len(state.past) = maxSize
    /\ state.past[1][1].id = 2
    /\ state.past[2][1].id = 3
    /\ state.present \in { Some(b) : b \in BatchInputs }
    /\ 1 \notin CommittedIds(state)

-----------------------------------------------------------------------------
(* Style persistence: clearStyles and the debounced write *)

\* C38: after clearStyles() has removed the item, storage holds no style map
\* until the next saveStyles or updateStyle call: no write scheduled before
\* clearStyles puts the old map back.
C38_Claim ==
    [][(lastOperation.op = "clearStyles" /\ ~lastOperation.failed) =>
         \/ lastOperation'.op \in {"saveStyles", "updateStyle"}
         \/ IsNull(localStorage')]_vars

-----------------------------------------------------------------------------
(* The editor: the load of the default template *)

\* the template response arrives in this step
TemplateArrives == templateFetch = "loading" /\ templateFetch' = "loaded"

\* C39: the template that arrives replaces the document only while the
\* document is still the loading placeholder; after a generation has
\* completed or the user has edited the document, it is left as it is.
C39_Claim ==
    [][TemplateArrives =>
         htmlContent' = IF htmlContent = LOADING_HTML THEN TEMPLATE_HTML
                        ELSE htmlContent]_vars

-----------------------------------------------------------------------------
(* The editor: what a completion writes *)

\* the content onComplete of call s computes from the text received
ComputedHtml(s) ==
    IF closure[s].hasGeneratedOnce
    THEN applySearchReplace(closure[s].htmlContent, fullContent[s])
    ELSE extractHtml(fullContent[s])

=============================================================================
